---- MODULE Spec2Model ----
(***************************************************************************)
(* Model of the permission-gated system-operation broker of Agentic-AI:    *)
(*   src/src/utils/permission_manager.py  (PermissionRecord,               *)
(*                                         PermissionManager)              *)
(*   src/src/core/system_operations.py    (SystemOperationManager)         *)
(*                                                                         *)
(* Time is an integer clock (datetime.now()).  A path is a sequence of     *)
(* segments and a segment is a sequence of name tokens, so that str(path)  *)
(* is a sequence of tokens and str.startswith is a real prefix test:       *)
(* /ws/logs_private is the path << <<"ws">>, <<"logs","_private">> >>.     *)
(***************************************************************************)
EXTENDS Integers, Sequences, FiniteSets, TLC

VARIABLES
    now,                \* datetime.now()
    permissions,        \* PermissionManager.permissions: path -> PermissionRecord
    ui_callback,        \* PermissionManager.ui_callback is set (TRUE) or None (FALSE)
    config_file,        \* content of config/permissions.json
    running_processes,  \* SystemOperationManager.running_processes
    last_operation,     \* SystemOperationManager.last_operation
    workers,            \* background_task threads that have been started
    launch,             \* execute_command(background=True) between thread.start() and registration
    lock,               \* PermissionManager._lock: the thread that holds it, or Free
    pending,            \* per thread: the check_permission call that is inside the consent callback
    platform,           \* platform.system()
    is_elevated,        \* SystemOperationManager.is_elevated
    exited,             \* sys.exit() has ended the process
    registry,           \* the Windows registry: <<key_path, value_name>> -> data and type
    files,              \* the file system: path -> content of the file
    last                \* the most recent call: its name, arguments, return value and what it invoked

vars == <<now, permissions, ui_callback, config_file, running_processes,
          last_operation, workers, launch, lock, pending, platform,
          is_elevated, exited, registry, files, last>>

storeVars == <<permissions, ui_callback, config_file>>
systemVars == <<running_processes, last_operation, workers, launch>>
lockVars == <<lock, pending>>
hostVars == <<platform, is_elevated, exited, registry, files>>

----------------------------------------------------------------------------
(* Bounds *)

MaxTime == 2
MaxDuration == 1
MaxWorkers == 1
MaxProcessIds == 1
MaxThreads == 2
MaxLaunches == 2
MaxLaunchIds == 2
MaxContent == 1

(* Program constants *)

StartTime == 1
NoExpiry == -1
BootstrapDuration == 3600

\* threading.RLock(): no thread holds it
Free == 0
\* the threads that call the PermissionManager
Threads == 1..MaxThreads

Operations == {"read", "write", "execute", "delete"}
safe_dirs == << <<"logs">>, <<"cache">>, <<"temp">>, <<"output">> >>

----------------------------------------------------------------------------
(* Paths *)

Root == << >>
workspace_path == << <<"ws">> >>

Child(p, seg) == Append(p, seg)

Parent(p) == IF p = Root THEN Root ELSE SubSeq(p, 1, Len(p) - 1)

RECURSIVE PathStr(_)
PathStr(p) ==
    IF p = Root THEN <<"/">>
    ELSE IF Len(p) = 1 THEN <<"/">> \o p[1]
    ELSE PathStr(Parent(p)) \o <<"/">> \o p[Len(p)]

StartsWith(s, prefix) ==
    /\ Len(prefix) <= Len(s)
    /\ SubSeq(s, 1, Len(prefix)) = prefix

RECURSIVE Ancestors(_)
Ancestors(p) ==
    IF p = Root THEN {} ELSE {Parent(p)} \cup Ancestors(Parent(p))

D1 == << <<"d">> >>
D2 == Child(D1, <<"e">>)
D3 == Child(D2, <<"f">>)

WsSrc == Child(workspace_path, <<"src">>)
WsSrcFile == Child(WsSrc, <<"f">>)
WsLogs == Child(workspace_path, <<"logs">>)
WsLogsFile == Child(WsLogs, <<"f">>)
WsCacheFile == Child(Child(workspace_path, <<"cache">>), <<"f">>)
WsTempFile == Child(Child(workspace_path, <<"temp">>), <<"f">>)
WsOutputFile == Child(Child(workspace_path, <<"output">>), <<"f">>)
WsLogsPrivateFile == Child(Child(workspace_path, <<"logs", "_private">>), <<"f">>)
WsOtherFile == << <<"ws", "-other">>, <<"f">> >>

----------------------------------------------------------------------------
(* PermissionRecord *)

NoRecords == [p \in {} |-> {}]

Put(table, key, value) ==
    [k \in (DOMAIN table) \cup {key} |-> IF k = key THEN value ELSE table[k]]

Remove(table, key) == [k \in (DOMAIN table) \ {key} |-> table[k]]

PermissionRecord(path, operations, granted_by, expires_at) ==
    [path |-> path, operations |-> operations, granted_by |-> granted_by,
     expires_at |-> expires_at, granted_at |-> now]

\* is_valid with the expiry bound taken inclusively
is_valid_Inclusive(record) ==
    IF record.expires_at = NoExpiry THEN TRUE ELSE now <= record.expires_at

is_valid(record) ==
    IF record.expires_at = NoExpiry THEN TRUE ELSE now < record.expires_at

allows(record, operation) ==
    operation \in record.operations /\ is_valid(record)

to_dict(record) ==
    [path |-> record.path, operations |-> record.operations,
     granted_by |-> record.granted_by, granted_at |-> record.granted_at,
     expires_at |-> record.expires_at]

\* from_dict that leaves expires_at as the constructor set it
from_dict_Permanent(data) ==
    [PermissionRecord(data.path, data.operations, data.granted_by, NoExpiry)
        EXCEPT !.granted_at = data.granted_at]

from_dict(data) ==
    [PermissionRecord(data.path, data.operations, data.granted_by, NoExpiry)
        EXCEPT !.granted_at = data.granted_at,
               !.expires_at = data.expires_at]

----------------------------------------------------------------------------
(* PermissionManager: persistence *)

auto_save == TRUE

NoFile == [exists |-> FALSE, readable |-> FALSE, data |-> NoRecords]
CorruptFile == [exists |-> TRUE, readable |-> FALSE, data |-> NoRecords]
FileOf(data) == [exists |-> TRUE, readable |-> TRUE, data |-> data]

\* The table _load_permissions leaves in self.permissions, which is empty
\* before the load.
LoadedPermissions(file) ==
    IF ~file.exists THEN NoRecords
    ELSE IF ~file.readable THEN NoRecords
    ELSE LET valid == {p \in DOMAIN file.data : is_valid(from_dict(file.data[p]))}
         IN  [p \in valid |-> from_dict(file.data[p])]

\* The file _save_permissions writes.
SavedFile(table) == FileOf([p \in DOMAIN table |-> to_dict(table[p])])

AutoSaved(table) == IF auto_save THEN SavedFile(table) ELSE config_file

----------------------------------------------------------------------------
(* PermissionManager: the table operations as functions of the table *)

ExpiresAt(duration) == IF duration = NoExpiry THEN NoExpiry ELSE now + duration

\* grant_permission that replaces an existing record instead of merging
Granted_Replaces(table, path, operations, duration, granted_by) ==
    Put(table, path,
        PermissionRecord(path, operations, granted_by, ExpiresAt(duration)))

\* self.permissions after grant_permission(path, operations, duration, granted_by)
Granted(table, path, operations, duration, granted_by) ==
    IF path \in DOMAIN table
    THEN Put(table, path,
             [table[path] EXCEPT
                 !.operations = @ \cup operations,
                 !.granted_by = granted_by,
                 !.expires_at = ExpiresAt(duration),
                 !.granted_at = now])
    ELSE Put(table, path,
             PermissionRecord(path, operations, granted_by, ExpiresAt(duration)))

\* An Optional argument: None, or the value given
None == << >>
Some(x) == <<x>>

\* revoke_permission that keeps a record left with no operation
Revoked_KeepsEmpty(table, path, operations) ==
    IF path \notin DOMAIN table THEN table
    ELSE IF operations = None THEN Remove(table, path)
    ELSE Put(table, path,
             [table[path] EXCEPT !.operations = @ \ operations[1]])

\* self.permissions after revoke_permission(path, operations)
Revoked(table, path, operations) ==
    IF path \notin DOMAIN table THEN table
    ELSE IF operations = None THEN Remove(table, path)
    ELSE LET left == table[path].operations \ operations[1]
         IN  IF left = {} THEN Remove(table, path)
             ELSE Put(table, path, [table[path] EXCEPT !.operations = left])

\* list_permissions without the removal of the expired records
Pruned_Nothing(table) == table

\* self.permissions after list_permissions has removed the expired records
Pruned(table) ==
    [p \in {q \in DOMAIN table : is_valid(table[q])} |-> table[p]]

----------------------------------------------------------------------------
(* PermissionManager.check_permission, up to the consent callback *)

InWorkspace(path) == StartsWith(PathStr(path), PathStr(workspace_path))

InSafeDir(path) ==
    \E i \in 1..Len(safe_dirs) :
        StartsWith(PathStr(path), PathStr(Child(workspace_path, safe_dirs[i])))

ImplicitAllows(path, operation) ==
    /\ InWorkspace(path)
    /\ \/ operation = "read"
       \/ InSafeDir(path) /\ operation \in {"write", "delete"}

ExactAllows(path, operation) ==
    path \in DOMAIN permissions /\ allows(permissions[path], operation)

\* the walk over the parents stopped at the immediate parent
ParentAllows_ImmediateOnly(path, operation) ==
    /\ path # Root
    /\ Parent(path) \in DOMAIN permissions
    /\ allows(permissions[Parent(path)], operation)

ParentAllows(path, operation) ==
    \E parent \in Ancestors(path) :
        parent \in DOMAIN permissions /\ allows(permissions[parent], operation)

PermissionFound(path, operation) ==
    \/ ImplicitAllows(path, operation)
    \/ ExactAllows(path, operation)
    \/ ParentAllows(path, operation)

----------------------------------------------------------------------------
(* The record of the most recent call *)

Void == << >>
Returned(x) == <<x>>

NoArgs == << >>

\* prompts: the invocations of a consent callback made by the call
CallWith(op, path, operation, args, result, prompts) ==
    [op |-> op, path |-> path, operation |-> operation, args |-> args,
     result |-> result, prompts |-> prompts]

Call(op, path, operation, result, prompts) ==
    CallWith(op, path, operation, NoArgs, result, prompts)

NoCall == Call("init", Root, "", Void, 0)

----------------------------------------------------------------------------
(* PermissionManager: operations *)

\* PermissionManager.__init__ on the config file (a start of the program)
PermissionManager_init ==
    /\ permissions' = LoadedPermissions(config_file)
    /\ ui_callback' = FALSE
    /\ last' = Call("__init__", Root, "", Void, 0)
    /\ UNCHANGED <<now, hostVars, lockVars, config_file>>
    /\ UNCHANGED systemVars

set_ui_callback(callback) ==
    /\ ui_callback' = callback
    /\ last' = Call("set_ui_callback", Root, "", Void, 0)
    /\ UNCHANGED <<now, hostVars, lockVars, permissions, config_file>>
    /\ UNCHANGED systemVars

\* check_permission as a function of the callback's answer:
\* the value returned, the number of callback invocations, the table left
CheckOutcome(path, operation, callback, answer) ==
    IF PermissionFound(path, operation)
    THEN [result |-> TRUE, prompts |-> 0, table |-> permissions, saved |-> FALSE]
    ELSE IF callback /\ answer
    THEN [result |-> TRUE, prompts |-> 1,
          table |-> Granted(permissions, path, {operation}, NoExpiry, "user"),
          saved |-> auto_save]
    ELSE [result |-> FALSE, prompts |-> IF callback THEN 1 ELSE 0,
          table |-> permissions, saved |-> FALSE]

check_permission(path, operation, answer) ==
    LET out == CheckOutcome(path, operation, ui_callback, answer)
    IN  /\ lock = Free
        /\ permissions' = out.table
        /\ config_file' = IF out.saved THEN SavedFile(out.table) ELSE config_file
        /\ last' = Call("check_permission", path, operation,
                        Returned(out.result), out.prompts)
        /\ UNCHANGED <<now, hostVars, lockVars, ui_callback>>
        /\ UNCHANGED systemVars

\* check_permission by a thread, up to the call of the consent callback: the
\* thread holds the lock of the `with self._lock` block and waits for the
\* answer
check_permission_ask(thread, path, operation) ==
    /\ lock = Free
    /\ pending[thread] = None
    /\ ~PermissionFound(path, operation)
    /\ ui_callback
    /\ lock' = thread
    /\ pending' = [pending EXCEPT
                      ![thread] = Some([path |-> path, operation |-> operation])]
    /\ last' = CallWith("ui_callback", path, operation, <<thread>>, Void, 1)
    /\ UNCHANGED <<now, hostVars, storeVars>>
    /\ UNCHANGED systemVars

\* the consent callback returns answer: the thread grants on a yes, leaves
\* the with block and returns
check_permission_answer(thread, answer) ==
    /\ pending[thread] # None
    /\ lock = thread
    /\ LET call == pending[thread][1]
           table == IF answer
                    THEN Granted(permissions, call.path, {call.operation},
                                 NoExpiry, "user")
                    ELSE permissions
       IN  /\ permissions' = table
           /\ config_file' = IF answer /\ auto_save THEN SavedFile(table)
                             ELSE config_file
           /\ last' = CallWith("check_permission", call.path, call.operation,
                               <<thread>>, Returned(answer), 1)
    /\ lock' = Free
    /\ pending' = [pending EXCEPT ![thread] = None]
    /\ UNCHANGED <<now, hostVars, ui_callback>>
    /\ UNCHANGED systemVars

\* has_permission sets ui_callback to None around check_permission and restores it
has_permission(path, operation) ==
    LET out == CheckOutcome(path, operation, FALSE, FALSE)
    IN  /\ lock = Free
        /\ permissions' = out.table
        /\ config_file' = IF out.saved THEN SavedFile(out.table) ELSE config_file
        /\ ui_callback' = ui_callback
        /\ last' = Call("has_permission", path, operation,
                        Returned(out.result), out.prompts)
        /\ UNCHANGED <<now, hostVars, lockVars>>
        /\ UNCHANGED systemVars

grant_permission(path, operations, duration, granted_by) ==
    /\ lock = Free
    /\ permissions' = Granted(permissions, path, operations, duration, granted_by)
    /\ config_file' = AutoSaved(permissions')
    /\ last' = CallWith("grant_permission", path, "",
                        <<operations, duration, granted_by>>, Void, 0)
    /\ UNCHANGED <<now, hostVars, lockVars, ui_callback>>
    /\ UNCHANGED systemVars

revoke_permission(path, operations) ==
    /\ lock = Free
    /\ permissions' = Revoked(permissions, path, operations)
    /\ config_file' = IF path \in DOMAIN permissions
                      THEN AutoSaved(permissions') ELSE config_file
    /\ last' = CallWith("revoke_permission", path, "", <<operations>>, Void, 0)
    /\ UNCHANGED <<now, hostVars, lockVars, ui_callback>>
    /\ UNCHANGED systemVars

\* list_permissions returns the to_dict of every record left after the pruning
Listed(table) == [p \in DOMAIN Pruned(table) |-> to_dict(Pruned(table)[p])]

list_permissions ==
    /\ lock = Free
    /\ permissions' = Pruned(permissions)
    /\ config_file' = IF DOMAIN permissions' # DOMAIN permissions
                      THEN AutoSaved(permissions') ELSE config_file
    /\ last' = Call("list_permissions", Root, "", Returned(Listed(permissions)), 0)
    /\ UNCHANGED <<now, hostVars, lockVars, ui_callback>>
    /\ UNCHANGED systemVars

clear_permissions ==
    /\ lock = Free
    /\ permissions' = NoRecords
    /\ config_file' = AutoSaved(permissions')
    /\ last' = Call("clear_permissions", Root, "", Void, 0)
    /\ UNCHANGED <<now, hostVars, lockVars, ui_callback>>
    /\ UNCHANGED systemVars

\* datetime.now() advances
Tick ==
    /\ now < MaxTime
    /\ now' = now + 1
    /\ last' = Call("tick", Root, "", Void, 0)
    /\ UNCHANGED <<lockVars, hostVars, storeVars>>
    /\ UNCHANGED systemVars

\* request_permission: check_permission first (which asks the callback on a
\* miss, answer1), then the callback again (answer2), then the bootstrap rule
RequestOutcome(path, operation, callback, answer1, answer2) ==
    LET first == CheckOutcome(path, operation, callback, answer1)
    IN  IF first.result THEN first
        ELSE IF callback
        THEN IF answer2
             THEN [result |-> TRUE, prompts |-> first.prompts + 1,
                   table |-> Granted(first.table, path, {operation}, NoExpiry, "user"),
                   saved |-> auto_save]
             ELSE [result |-> FALSE, prompts |-> first.prompts + 1,
                   table |-> first.table, saved |-> first.saved]
        ELSE IF operation = "read" /\ Len(path) + 1 <= 2
        THEN [result |-> TRUE, prompts |-> first.prompts,
              table |-> Granted(first.table, path, {"read"}, BootstrapDuration, "user"),
              saved |-> auto_save]
        ELSE [result |-> FALSE, prompts |-> first.prompts,
              table |-> first.table, saved |-> first.saved]

request_permission(path, operation, answer1, answer2) ==
    LET out == RequestOutcome(path, operation, ui_callback, answer1, answer2)
    IN  /\ lock = Free
        /\ permissions' = out.table
        /\ config_file' = IF out.saved THEN SavedFile(out.table) ELSE config_file
        /\ last' = Call("request_permission", path, operation,
                        Returned(out.result), out.prompts)
        /\ UNCHANGED <<now, hostVars, lockVars, ui_callback>>
        /\ UNCHANGED systemVars

----------------------------------------------------------------------------
(* The permission store on its own: one PermissionManager, every operation *)

Durations == {NoExpiry} \cup (1..MaxDuration)
GrantedBy == {"user", "system"}
OperationSets ==
    {{}, {"read", "write"}, Operations} \cup {{o} : o \in Operations}

StorePaths == {D2}
StoreCheckPaths == {D2, D3}

\* Files the program may find at construction: none, an unreadable one, and
\* tables written by an earlier run (at time 0)
EarlierRecord(path, operations, expires_at) ==
    [path |-> path, operations |-> operations, granted_by |-> "user",
     granted_at |-> 0, expires_at |-> expires_at]

InitialFiles ==
    {NoFile, CorruptFile,
     FileOf([p \in {D2} |-> EarlierRecord(D2, {"read"}, StartTime)]),
     FileOf([p \in {D1, D2} |->
                IF p = D1 THEN EarlierRecord(D1, {"read", "execute"}, NoExpiry)
                ELSE EarlierRecord(D2, {"write"}, StartTime + 1)])}

NoLastOperation ==
    [type |-> "None", original_state |-> None, target |-> "None",
     rollback_possible |-> FALSE]

\* SystemOperationManager.__init__: the registry of processes and the slot
InitManager ==
    /\ lock = Free
    /\ pending = [thread \in Threads |-> None]
    /\ running_processes = NoRecords
    /\ last_operation = NoLastOperation
    /\ workers = << >>
    /\ launch = None
    /\ exited = FALSE

\* a Linux host, not root, with no file of interest
InitHost ==
    /\ platform = "Linux"
    /\ is_elevated = FALSE
    /\ registry = NoRecords
    /\ files = NoRecords

InitSystem == InitManager /\ InitHost

Init ==
    /\ now = StartTime
    /\ config_file \in InitialFiles
    /\ permissions = LoadedPermissions(config_file)
    /\ ui_callback = FALSE
    /\ last = NoCall
    /\ InitSystem

Next ==
    \/ Tick
    \/ PermissionManager_init
    \/ \E callback \in BOOLEAN : set_ui_callback(callback)
    \/ \E path \in StorePaths, operation \in Operations, answer \in BOOLEAN :
           check_permission(path, operation, answer)
    \/ \E path \in StoreCheckPaths, operation \in Operations :
           has_permission(path, operation)
    \/ \E path \in StorePaths, operation \in Operations, answer \in BOOLEAN :
           request_permission(path, operation, answer, answer)
    \/ \E path \in StorePaths, operations \in OperationSets,
          duration \in Durations, granted_by \in GrantedBy :
           grant_permission(path, operations, duration, granted_by)
    \/ \E path \in StorePaths \cup {D1},
          operations \in {None} \cup {Some(o) : o \in OperationSets} :
           revoke_permission(path, operations)
    \/ list_permissions
    \/ clear_permissions

Spec == Init /\ [][Next]_vars

----------------------------------------------------------------------------
(* SystemOperationManager: commands *)

\* A command string is the sequence of its whitespace-separated words
safe_commands ==
    << <<"dir">>, <<"ls">>, <<"echo">>, <<"cd">>, <<"pwd">>, <<"type">>,
       <<"cat">>, <<"more">>, <<"date">>, <<"time">>, <<"whoami">>,
       <<"hostname">>, <<"ver">>, <<"python", "--version">>,
       <<"pip", "--version">> >>

\* str.lower() on the words used here
Lower(word) == IF word = "ECHO" THEN "echo" ELSE word

\* _is_safe_command comparing the whole command with the entries of the list
SafeCommand_WholeCommand(command) ==
    \E i \in 1..Len(safe_commands) : safe_commands[i] = command

\* _is_safe_command(command), for a command with at least one word
SafeCommand(command) ==
    \E i \in 1..Len(safe_commands) :
        Lower(command[1]) = Lower(safe_commands[i][1])

\* Path(executable).resolve(): a bare name resolves against the working
\* directory of the process, which is the default workspace
Cwd == workspace_path

\* sys.executable, and the words execute_python_script builds for a
\* background run: the interpreter and the script between double quotes
python_exe == "/usr/bin/python3"
QuotedPython == "\"/usr/bin/python3\""
ScriptPath == Child(workspace_path, <<"s.py">>)
QuotedScript == "\"/ws/s.py\""

\* the parts of Path(word): a word that starts with a double quote is a
\* relative path whose first part is the quote
PathParts(word) ==
    IF word = QuotedPython
    THEN << <<"\"">>, <<"usr">>, <<"bin">>, <<"python3\"">> >>
    ELSE << <<word>> >>

ExecutablePath(command) == Cwd \o PathParts(command[1])

\* The permission step of execute_command for a command with at least one
\* word: whether the command may run, the answers the consent dialog gave,
\* the PermissionManager calls made and the table left
ExecutePermission_NoGrant(command, answer) ==
    IF SafeCommand(command)
    THEN [allowed |-> TRUE, answers |-> << >>, store_calls |-> 0,
          table |-> permissions, saved |-> FALSE]
    ELSE IF PermissionFound(ExecutablePath(command), "execute")
    THEN [allowed |-> TRUE, answers |-> << >>, store_calls |-> 1,
          table |-> permissions, saved |-> FALSE]
    ELSE [allowed |-> answer, answers |-> <<answer>>, store_calls |-> 1,
          table |-> permissions, saved |-> FALSE]

ExecutePermission_IgnoresDenial(command, answer) ==
    IF SafeCommand(command)
    THEN [allowed |-> TRUE, answers |-> << >>, store_calls |-> 0,
          table |-> permissions, saved |-> FALSE]
    ELSE IF PermissionFound(ExecutablePath(command), "execute")
    THEN [allowed |-> TRUE, answers |-> << >>, store_calls |-> 1,
          table |-> permissions, saved |-> FALSE]
    ELSE [allowed |-> TRUE, answers |-> <<answer>>, store_calls |-> 2,
          table |-> Granted(permissions, ExecutablePath(command),
                            {"execute"}, NoExpiry, "user"),
          saved |-> auto_save]

ExecutePermission(command, answer) ==
    IF SafeCommand(command)
    THEN [allowed |-> TRUE, answers |-> << >>, store_calls |-> 0,
          table |-> permissions, saved |-> FALSE]
    ELSE IF PermissionFound(ExecutablePath(command), "execute")
    THEN [allowed |-> TRUE, answers |-> << >>, store_calls |-> 1,
          table |-> permissions, saved |-> FALSE]
    ELSE IF ~answer
    THEN [allowed |-> FALSE, answers |-> <<FALSE>>, store_calls |-> 1,
          table |-> permissions, saved |-> FALSE]
    ELSE [allowed |-> TRUE, answers |-> <<TRUE>>, store_calls |-> 2,
          table |-> Granted(permissions, ExecutablePath(command),
                            {"execute"}, NoExpiry, "user"),
          saved |-> auto_save]

\* What subprocess.run does: the process exits with a return code, the
\* timeout expires, or the call raises
Outcomes ==
    {[kind |-> "exit", returncode |-> 0], [kind |-> "exit", returncode |-> 2],
     [kind |-> "timeout", returncode |-> 1], [kind |-> "error", returncode |-> 1]}

\* The (exit_code, stdout, stderr) of a run
ResultOf(outcome) ==
    IF outcome.kind = "exit" THEN <<outcome.returncode, "stdout", "stderr">>
    ELSE IF outcome.kind = "timeout" THEN <<1, "", "Command timed out">>
    ELSE <<1, "", "Error: ...">>

PermissionDenied == <<1, "", "Permission denied">>
StartedInBackground(process_id) ==
    <<0, <<"Command started in background. Process ID:", process_id>>, "">>

\* The call record of a SystemOperationManager operation: answers are the
\* answers of the consent dialog, store_calls the PermissionManager calls
\* made, spawned the subprocess.run calls made, threads the threads started
SystemCallWith(op, command, args, result, answers, store_calls, spawned, threads) ==
    [op |-> op, path |-> Root, operation |-> "", args |-> args,
     result |-> result, prompts |-> Len(answers), command |-> command,
     answers |-> answers, store_calls |-> store_calls, spawned |-> spawned,
     threads |-> threads]

SystemCall(op, command, args, result, answers, store_calls) ==
    SystemCallWith(op, command, args, result, answers, store_calls, 0, 0)

Raised(exception) == <<"raised", exception>>

\* The record the launcher registers, and the record the worker stores
RegisteredProcess(thread, command) ==
    [thread |-> thread, command |-> command, cwd |-> workspace_path,
     completed |-> FALSE]

FinishedProcess(outcome) ==
    [returncode |-> ResultOf(outcome)[1], stdout |-> ResultOf(outcome)[2],
     stderr |-> ResultOf(outcome)[3], completed |-> TRUE]

CommandOperation(command) ==
    [type |-> "command", original_state |-> None, target |-> command,
     rollback_possible |-> FALSE]

\* shell: bool = True, the default every caller of execute_command leaves
DefaultShell == TRUE

\* execute_command(command, background=background) on the string object
\* process_id = id(command); a background call stops after thread.start()
\* and is finished by register_process
execute_command(command, background, process_id, answer, outcome) ==
    /\ launch = None
    /\ IF command = << >>
       THEN \* command.split()[0] raises IndexError in _is_safe_command
            /\ last' = SystemCall("execute_command", command, <<background>>,
                                  Raised("IndexError"), << >>, 0)
            /\ UNCHANGED <<now, hostVars, lockVars, storeVars, systemVars>>
       ELSE LET perm == ExecutePermission(command, answer)
            IN  /\ SafeCommand(command) \/ lock = Free
                /\ permissions' = perm.table
                /\ config_file' = IF perm.saved THEN SavedFile(perm.table)
                                  ELSE config_file
                /\ UNCHANGED <<now, hostVars, lockVars, ui_callback>>
                /\ IF ~perm.allowed
                   THEN /\ last' = SystemCall("execute_command", command,
                                              <<background>>,
                                              Returned(PermissionDenied),
                                              perm.answers, perm.store_calls)
                        /\ UNCHANGED systemVars
                   ELSE IF background
                   THEN /\ workers' = Append(workers,
                                             [process_id |-> process_id,
                                              command |-> command,
                                              shell |-> DefaultShell,
                                              pc |-> "started"])
                        /\ last' = SystemCallWith("execute_command", command,
                                                  <<background>>, Void,
                                                  perm.answers,
                                                  perm.store_calls, 0, 1)
                        /\ launch' = Some([process_id |-> process_id,
                                           command |-> command,
                                           thread |-> Len(workers) + 1,
                                           call |-> last'])
                        /\ UNCHANGED <<running_processes, last_operation>>
                   ELSE /\ last_operation' =
                               IF outcome.kind = "exit"
                               THEN CommandOperation(command)
                               ELSE last_operation
                        /\ last' = SystemCallWith("execute_command", command,
                                                  <<background>>,
                                                  Returned(ResultOf(outcome)),
                                                  perm.answers,
                                                  perm.store_calls, 1, 0)
                        /\ UNCHANGED <<running_processes, workers, launch>>

\* the end of a background execute_command: the record is stored under
\* process_lock and the call returns
register_process ==
    /\ launch # None
    /\ running_processes' =
           Put(running_processes, launch[1].process_id,
               RegisteredProcess(launch[1].thread, launch[1].command))
    /\ launch' = None
    /\ last' = [launch[1].call EXCEPT
                   !.result = Returned(StartedInBackground(launch[1].process_id))]
    /\ UNCHANGED <<now, hostVars, lockVars, storeVars, last_operation, workers>>

\* background_task: the worker thread calls subprocess.run
background_task_run(thread) ==
    /\ thread \in 1..Len(workers)
    /\ workers[thread].pc = "started"
    /\ workers' = [workers EXCEPT ![thread].pc = "running"]
    /\ last' = SystemCallWith("background_task", workers[thread].command,
                              <<thread>>, Void, << >>, 0, 1, 0)
    /\ UNCHANGED <<now, hostVars, lockVars, storeVars, running_processes, last_operation, launch>>

\* background_task: subprocess.run has returned or raised and the worker
\* stores the result under process_lock
background_task_store(thread, outcome) ==
    /\ thread \in 1..Len(workers)
    /\ workers[thread].pc = "running"
    /\ workers' = [workers EXCEPT ![thread].pc = "done"]
    /\ running_processes' =
           Put(running_processes, workers[thread].process_id,
               FinishedProcess(outcome))
    /\ last' = SystemCall("background_task", workers[thread].command,
                          <<thread>>, Void, << >>, 0)
    /\ UNCHANGED <<now, hostVars, lockVars, storeVars, last_operation, launch>>

ProcessStatus(process_id) ==
    IF process_id \notin DOMAIN running_processes
    THEN [exists |-> FALSE, message |-> "Process not found"]
    ELSE LET process == running_processes[process_id]
         IN  IF ~process.completed
             THEN [exists |-> TRUE, completed |-> FALSE,
                   command |-> process.command]
             ELSE [exists |-> TRUE, completed |-> TRUE,
                   command |-> IF "command" \in DOMAIN process
                               THEN process.command ELSE <<"Unknown">>,
                   returncode |-> process.returncode,
                   stdout |-> process.stdout,
                   stderr |-> process.stderr]

get_process_status(process_id) ==
    /\ last' = SystemCall("get_process_status", << >>, <<process_id>>,
                          Returned(ProcessStatus(process_id)), << >>, 0)
    /\ UNCHANGED <<now, hostVars, lockVars, storeVars, systemVars>>

\* kill_process marking a record whatever its state
kill_process_AlwaysMarks(process_id) ==
    /\ running_processes' =
           IF process_id \in DOMAIN running_processes
           THEN Put(running_processes, process_id,
                    [k \in DOMAIN running_processes[process_id]
                            \cup {"completed", "returncode", "stdout", "stderr"} |->
                        IF k = "completed" THEN TRUE
                        ELSE IF k = "returncode" THEN 1
                        ELSE IF k = "stdout" THEN ""
                        ELSE IF k = "stderr" THEN "Process was killed"
                        ELSE running_processes[process_id][k]])
           ELSE running_processes
    /\ last' = SystemCall("kill_process", << >>, <<process_id>>,
                          Returned(process_id \in DOMAIN running_processes),
                          << >>, 0)
    /\ UNCHANGED <<now, hostVars, lockVars, storeVars, last_operation, workers, launch>>

\* the record kill_process leaves: the keys of the record with completed,
\* returncode, stdout and stderr set
KilledProcess(process) ==
    [k \in DOMAIN process \cup {"completed", "returncode", "stdout", "stderr"} |->
        IF k = "completed" THEN TRUE
        ELSE IF k = "returncode" THEN 1
        ELSE IF k = "stdout" THEN ""
        ELSE IF k = "stderr" THEN "Process was killed"
        ELSE process[k]]

kill_process(process_id) ==
    /\ running_processes' =
           IF process_id \in DOMAIN running_processes
              /\ ~running_processes[process_id].completed
           THEN Put(running_processes, process_id,
                    KilledProcess(running_processes[process_id]))
           ELSE running_processes
    /\ last' = SystemCall("kill_process", << >>, <<process_id>>,
                          Returned(process_id \in DOMAIN running_processes),
                          << >>, 0)
    /\ UNCHANGED <<now, hostVars, lockVars, storeVars, last_operation, workers, launch>>

\* The (exit_code, stdout, stderr) of a synchronous script run
ScriptResultOf(outcome) ==
    IF outcome.kind = "exit" THEN <<outcome.returncode, "stdout", "stderr">>
    ELSE IF outcome.kind = "timeout"
    THEN <<1, "", "Script execution timed out after 5 minutes">>
    ELSE <<1, "", "Error: ...">>

ScriptNotFound == <<1, "", "Script not found">>

\* the command string of a background script run
ScriptCommand == <<QuotedPython, QuotedScript>>

ScriptOperation ==
    [type |-> "python_script", original_state |-> None, target |-> ScriptPath,
     rollback_possible |-> FALSE]

\* execute_python_script(ScriptPath, background=background): exists is
\* Path(script_path).exists(); a background run is execute_command on the
\* command string, a synchronous run calls subprocess.run itself
execute_python_script(exists, background, process_id, answer, outcome) ==
    IF ~exists
    THEN /\ launch = None
         /\ last' = SystemCall("execute_python_script", ScriptCommand,
                               <<background>>, Returned(ScriptNotFound), << >>, 0)
         /\ UNCHANGED <<now, hostVars, lockVars, storeVars, systemVars>>
    ELSE IF background
    THEN execute_command(ScriptCommand, TRUE, process_id, answer, outcome)
    ELSE /\ launch = None
         /\ last_operation' = IF outcome.kind = "exit" THEN ScriptOperation
                              ELSE last_operation
         /\ last' = SystemCallWith("execute_python_script", ScriptCommand,
                                   <<background>>,
                                   Returned(ScriptResultOf(outcome)),
                                   << >>, 0, 1, 0)
                        @@ [shell |-> FALSE]
         /\ UNCHANGED <<now, hostVars, lockVars, storeVars, running_processes, workers, launch>>

\* The (exit_code, stdout, stderr) of install_package
InstallResultOf(outcome) ==
    IF outcome.kind = "exit" THEN <<outcome.returncode, "stdout", "stderr">>
    ELSE IF outcome.kind = "timeout"
    THEN <<1, "", "Package installation timed out">>
    ELSE <<1, "", "Error: ...">>

\* the argument vector of pip
InstallCommand(package_name, upgrade, user) ==
    <<"pip", "install">> \o (IF upgrade THEN <<"--upgrade">> ELSE << >>)
        \o (IF user THEN <<"--user">> ELSE << >>) \o <<package_name>>

InstallOperation(package_name) ==
    [type |-> "package_install", original_state |-> None,
     target |-> package_name, rollback_possible |-> FALSE]

install_package(package_name, upgrade, user, outcome) ==
    /\ launch = None
    /\ last_operation' = IF outcome.kind = "exit"
                         THEN InstallOperation(package_name)
                         ELSE last_operation
    /\ last' = SystemCallWith("install_package",
                              InstallCommand(package_name, upgrade, user),
                              <<package_name, upgrade, user>>,
                              Returned(InstallResultOf(outcome)), << >>, 0, 1, 0)
    /\ UNCHANGED <<now, hostVars, lockVars, storeVars, running_processes, workers, launch>>

----------------------------------------------------------------------------
(* SystemOperationManager: the registry and the undo slot *)

\* The winreg type constants are integers (REG_SZ = 1, ...); they are
\* written as numerals so that they can be compared with the type names
type_map ==
    [name \in {"REG_SZ", "REG_DWORD", "REG_BINARY", "REG_MULTI_SZ",
               "REG_EXPAND_SZ"} |->
        IF name = "REG_SZ" THEN "1"
        ELSE IF name = "REG_EXPAND_SZ" THEN "2"
        ELSE IF name = "REG_BINARY" THEN "3"
        ELSE IF name = "REG_DWORD" THEN "4"
        ELSE "7"]

\* value_type in type_map: the keys of the dict are the type names
TypeSupported(value_type) == value_type \in DOMAIN type_map

hkey_map ==
    {"HKEY_CURRENT_USER", "HKEY_LOCAL_MACHINE", "HKEY_CLASSES_ROOT",
     "HKEY_USERS", "HKEY_CURRENT_CONFIG"}

\* A key path is the sequence of its components between backslashes;
\* key_path.split('\\', 1) has two parts when there are two or more
KeyPathParts(key_path) == IF Len(key_path) >= 2 THEN 2 ELSE Len(key_path)

\* last_operation without its original_state
RegistryOperation_NoPriorState(key_path, value_name, old_value, old_type) ==
    [type |-> "registry", original_state |-> None,
     target |-> <<key_path, value_name>>, rollback_possible |-> TRUE]

\* last_operation recorded from the value found before the write;
\* old_type is the winreg constant QueryValueEx returns
RegistryOperation(key_path, value_name, old_value, old_type) ==
    [type |-> "registry",
     original_state |-> Some([key_path |-> key_path, value_name |-> value_name,
                              value_data |-> old_value, value_type |-> old_type]),
     target |-> <<key_path, value_name>>, rollback_possible |-> TRUE]

\* modify_registry recording the backup as soon as the consent is given,
\* before the checks of its arguments
ModifyOutcome_BackupBeforeChecks(key_path, value_name, value_data, value_type, answer, write_ok) ==
    LET unchanged(result, answers) ==
            [result |-> result, answers |-> answers, registry |-> registry,
             last_operation |-> last_operation]
        target == <<key_path, value_name>>
        slot == IF target \in DOMAIN registry
                THEN RegistryOperation(key_path, value_name,
                                       registry[target].data,
                                       registry[target].type)
                ELSE last_operation
        failed == [result |-> FALSE, answers |-> <<TRUE>>,
                   registry |-> registry, last_operation |-> slot]
    IN  IF platform # "Windows" THEN unchanged(FALSE, << >>)
        ELSE IF ~answer THEN unchanged(FALSE, <<FALSE>>)
        ELSE IF ~TypeSupported(value_type) THEN failed
        ELSE IF KeyPathParts(key_path) # 2 THEN failed
        ELSE IF key_path[1] \notin hkey_map THEN failed
        ELSE IF ~write_ok THEN failed
        ELSE [result |-> TRUE, answers |-> <<TRUE>>,
              registry |-> Put(registry, target,
                               [data |-> value_data,
                                type |-> type_map[value_type]]),
              last_operation |-> slot]

\* modify_registry(key_path, value_name, value_data, value_type) as a
\* function of the answer of the consent dialog and of whether the write
\* succeeds: the value returned, the answers given, the registry and the
\* undo slot left
ModifyOutcome(key_path, value_name, value_data, value_type, answer, write_ok) ==
    LET unchanged(result, answers) ==
            [result |-> result, answers |-> answers, registry |-> registry,
             last_operation |-> last_operation]
        target == <<key_path, value_name>>
        backup_exists == target \in DOMAIN registry
        slot == IF backup_exists
                THEN RegistryOperation(key_path, value_name,
                                       registry[target].data,
                                       registry[target].type)
                ELSE last_operation
    IN  IF platform # "Windows" THEN unchanged(FALSE, << >>)
        ELSE IF ~answer THEN unchanged(FALSE, <<FALSE>>)
        ELSE IF ~TypeSupported(value_type) THEN unchanged(FALSE, <<TRUE>>)
        ELSE IF KeyPathParts(key_path) # 2 THEN unchanged(FALSE, <<TRUE>>)
        ELSE IF key_path[1] \notin hkey_map THEN unchanged(FALSE, <<TRUE>>)
        ELSE IF ~write_ok
        THEN [result |-> FALSE, answers |-> <<TRUE>>, registry |-> registry,
              last_operation |-> slot]
        ELSE [result |-> TRUE, answers |-> <<TRUE>>,
              registry |-> Put(registry, target,
                               [data |-> value_data,
                                type |-> type_map[value_type]]),
              last_operation |-> slot]

modify_registry(key_path, value_name, value_data, value_type, answer, write_ok) ==
    LET out == ModifyOutcome(key_path, value_name, value_data, value_type,
                             answer, write_ok)
    IN  /\ launch = None
        /\ registry' = out.registry
        /\ last_operation' = out.last_operation
        /\ last' = SystemCall("modify_registry", << >>,
                              <<key_path, value_name, value_data, value_type>>,
                              Returned(out.result), out.answers, 0)
                       @@ [write_ok |-> write_ok]
        /\ UNCHANGED <<now, lockVars, storeVars, platform, is_elevated, exited,
                       files, running_processes, workers, launch>>

\* rollback_last_operation(): modify_registry on the original state of a
\* registry record, false for every other record
rollback_last_operation(answer, write_ok) ==
    LET orig == last_operation.original_state[1]
        out == IF ~last_operation.rollback_possible
               THEN [result |-> FALSE, answers |-> << >>,
                     registry |-> registry, last_operation |-> last_operation]
               ELSE IF last_operation.type = "registry"
               THEN ModifyOutcome(orig.key_path, orig.value_name,
                                  orig.value_data, orig.value_type,
                                  answer, write_ok)
               ELSE [result |-> FALSE, answers |-> << >>,
                     registry |-> registry, last_operation |-> last_operation]
    IN  /\ launch = None
        /\ registry' = out.registry
        /\ last_operation' = out.last_operation
        /\ last' = SystemCall("rollback_last_operation", << >>, << >>,
                              Returned(out.result), out.answers, 0)
                       @@ [write_ok |-> write_ok]
        /\ UNCHANGED <<now, lockVars, storeVars, platform, is_elevated, exited,
                       files, running_processes, workers, launch>>

----------------------------------------------------------------------------
(* SystemOperationManager: elevation and the operations that need it *)

\* SystemOperationManager.__init__ in a process started after an exit: the
\* table is loaded from the file, the callback is set, the registry of
\* processes and the undo slot are new; elevated is what _check_if_elevated
\* finds
SystemOperationManager_init(elevated) ==
    /\ exited
    /\ exited' = FALSE
    /\ is_elevated' = elevated
    /\ permissions' = LoadedPermissions(config_file)
    /\ ui_callback' = TRUE
    /\ running_processes' = NoRecords
    /\ last_operation' = NoLastOperation
    /\ workers' = << >>
    /\ launch' = None
    /\ last' = Call("__init__", Root, "", Void, 0)
    /\ UNCHANGED <<now, lockVars, config_file, platform, registry, files>>

\* elevate_privileges that reports success once the consent is given
ElevateOutcome_ReturnsAfterConsent(answer, relaunch_ok) ==
    IF is_elevated
    THEN [result |-> Returned(TRUE), answers |-> << >>, attempted |-> FALSE,
          spawned |-> 0, exited |-> FALSE]
    ELSE IF platform # "Windows"
    THEN [result |-> Returned(FALSE), answers |-> << >>, attempted |-> FALSE,
          spawned |-> 0, exited |-> FALSE]
    ELSE IF ~answer
    THEN [result |-> Returned(FALSE), answers |-> <<FALSE>>,
          attempted |-> FALSE, spawned |-> 0, exited |-> FALSE]
    ELSE [result |-> Returned(TRUE), answers |-> <<TRUE>>, attempted |-> TRUE,
          spawned |-> IF relaunch_ok THEN 1 ELSE 0, exited |-> FALSE]

\* elevate_privileges(operation) as a function of the answer of the
\* elevation dialog and of whether the batch file is written and started:
\* the value returned (Void when sys.exit(0) ends the process), the answers
\* given, whether the relaunch was attempted, the batch processes started
\* and whether the process has exited
ElevateOutcome(answer, relaunch_ok) ==
    IF is_elevated
    THEN [result |-> Returned(TRUE), answers |-> << >>, attempted |-> FALSE,
          spawned |-> 0, exited |-> FALSE]
    ELSE IF platform # "Windows"
    THEN [result |-> Returned(FALSE), answers |-> << >>, attempted |-> FALSE,
          spawned |-> 0, exited |-> FALSE]
    ELSE IF ~answer
    THEN [result |-> Returned(FALSE), answers |-> <<FALSE>>,
          attempted |-> FALSE, spawned |-> 0, exited |-> FALSE]
    ELSE IF relaunch_ok
    THEN [result |-> Void, answers |-> <<TRUE>>, attempted |-> TRUE,
          spawned |-> 1, exited |-> TRUE]
    ELSE \* except Exception: the batch file or Popen failed
         [result |-> Returned(FALSE), answers |-> <<TRUE>>, attempted |-> TRUE,
          spawned |-> 0, exited |-> FALSE]

elevate_privileges(answer, relaunch_ok) ==
    LET out == ElevateOutcome(answer, relaunch_ok)
    IN  /\ launch = None
        /\ exited' = out.exited
        /\ last' = SystemCallWith("elevate_privileges", << >>, << >>,
                                  out.result, out.answers, 0, out.spawned, 0)
                       @@ [attempted |-> out.attempted,
                           relaunch_ok |-> relaunch_ok]
        /\ UNCHANGED <<now, lockVars, storeVars, systemVars, platform,
                       is_elevated, registry, files>>

\* The synchronous execute_command(command) an operation makes for a
\* command with at least one word: the triple returned, the answers of the
\* consent dialog, the table and the undo slot left
RunCommand(command, answer, outcome) ==
    LET perm == ExecutePermission(command, answer)
    IN  [result |-> IF perm.allowed THEN ResultOf(outcome)
                    ELSE PermissionDenied,
         answers |-> perm.answers, store_calls |-> perm.store_calls,
         table |-> perm.table, saved |-> perm.saved,
         spawned |-> IF perm.allowed THEN 1 ELSE 0,
         last_operation |-> IF perm.allowed /\ outcome.kind = "exit"
                            THEN CommandOperation(command)
                            ELSE last_operation]

\* An outcome of an operation that ran no command
NoCommandRun(result, answers, spawned, exit) ==
    [result |-> result, answers |-> answers, store_calls |-> 0,
     table |-> permissions, saved |-> FALSE, spawned |-> spawned,
     last_operation |-> last_operation, exited |-> exit]

\* An outcome of an operation that went as far as execute_command
CommandRun(result, answers, run) ==
    [result |-> result, answers |-> answers \o run.answers,
     store_calls |-> run.store_calls, table |-> run.table,
     saved |-> run.saved, spawned |-> run.spawned,
     last_operation |-> run.last_operation, exited |-> FALSE]

\* f'"{service_name}"' for the service names used
Quoted(name) == IF name = "svc" THEN "\"svc\"" ELSE "\"task\""

\* The sc command of an action, None for an unsupported action
ServiceCommand(service_name, action) ==
    IF action = "query" THEN Some(<<"sc", "query", Quoted(service_name)>>)
    ELSE IF action = "start" THEN Some(<<"sc", "start", Quoted(service_name)>>)
    ELSE IF action = "stop" THEN Some(<<"sc", "stop", Quoted(service_name)>>)
    ELSE IF action = "restart"
    THEN Some(<<"sc", "stop", Quoted(service_name), "&&",
                "sc", "start", Quoted(service_name)>>)
    ELSE None

requires_elevation(action) == action \in {"start", "stop", "restart"}

\* The elevation step of manage_service and create_firewall_rule: the
\* offer, then elevate_privileges with its own dialog
ElevationStep(offer, answer, relaunch_ok) ==
    IF ~offer
    THEN [passed |-> FALSE, refused |-> TRUE, answers |-> <<FALSE>>,
          spawned |-> 0, exited |-> FALSE]
    ELSE LET out == ElevateOutcome(answer, relaunch_ok)
         IN  [passed |-> out.result = Returned(TRUE), refused |-> FALSE,
              answers |-> <<TRUE>> \o out.answers, spawned |-> out.spawned,
              exited |-> out.exited]

\* manage_service running the command whatever the elevation step gave
ServiceOutcome_SkipsElevation(service_name, action, consent, offer, answer, relaunch_ok, run_answer, outcome) ==
    IF platform # "Windows"
    THEN NoCommandRun(Returned(<<FALSE, "Service management is only available on Windows">>),
                      << >>, 0, FALSE)
    ELSE IF ~consent
    THEN NoCommandRun(Returned(<<FALSE, "Permission denied">>), <<FALSE>>, 0,
                      FALSE)
    ELSE IF ServiceCommand(service_name, action) = None
    THEN NoCommandRun(Returned(<<FALSE, "Unsupported service action">>),
                      <<TRUE>>, 0, FALSE)
    ELSE LET run == RunCommand(ServiceCommand(service_name, action)[1],
                               run_answer, outcome)
         IN  CommandRun(IF run.result[1] = 0
                        THEN Returned(<<TRUE, run.result[2]>>)
                        ELSE Returned(<<FALSE, run.result[3]>>),
                        <<TRUE>>, run)

\* manage_service(service_name, action) as a function of the answers of its
\* dialogs (the operation consent, the elevation offer, the dialog of
\* elevate_privileges, the consent of execute_command), of whether the
\* relaunch starts and of what the command does
ServiceOutcome(service_name, action, consent, offer, answer, relaunch_ok, run_answer, outcome) ==
    LET step == ElevationStep(offer, answer, relaunch_ok)
        elevating == requires_elevation(action) /\ ~is_elevated
        asked == IF elevating THEN <<TRUE>> \o step.answers ELSE <<TRUE>>
    IN  IF platform # "Windows"
        THEN NoCommandRun(Returned(<<FALSE, "Service management is only available on Windows">>),
                          << >>, 0, FALSE)
        ELSE IF ~consent
        THEN NoCommandRun(Returned(<<FALSE, "Permission denied">>), <<FALSE>>,
                          0, FALSE)
        ELSE IF elevating /\ step.exited
        THEN NoCommandRun(Void, asked, step.spawned, TRUE)
        ELSE IF elevating /\ step.refused
        THEN NoCommandRun(Returned(<<FALSE, "Elevation required but denied">>),
                          asked, 0, FALSE)
        ELSE IF elevating /\ ~step.passed
        THEN NoCommandRun(Returned(<<FALSE, "Failed to elevate privileges">>),
                          asked, step.spawned, FALSE)
        ELSE IF ServiceCommand(service_name, action) = None
        THEN NoCommandRun(Returned(<<FALSE, "Unsupported service action">>),
                          asked, 0, FALSE)
        ELSE LET run == RunCommand(ServiceCommand(service_name, action)[1],
                                   run_answer, outcome)
             IN  CommandRun(IF run.result[1] = 0
                            THEN Returned(<<TRUE, run.result[2]>>)
                            ELSE IF run.result[3] # ""
                            THEN Returned(<<FALSE, run.result[3]>>)
                            ELSE Returned(<<FALSE, "Service operation failed">>),
                            asked, run)

\* The effect of an operation with outcome out on the state, and its record
OperationDone(op, command, args, out) ==
    /\ launch = None
    /\ out.store_calls = 0 \/ lock = Free
    /\ permissions' = out.table
    /\ config_file' = IF out.saved THEN SavedFile(out.table) ELSE config_file
    /\ last_operation' = out.last_operation
    /\ exited' = out.exited
    /\ last' = SystemCallWith(op, command, args, out.result, out.answers,
                              out.store_calls, out.spawned, 0)
    /\ UNCHANGED <<now, lockVars, ui_callback, running_processes, workers,
                   launch, platform, is_elevated, registry, files>>

manage_service(service_name, action, consent, offer, answer, relaunch_ok, run_answer, outcome) ==
    OperationDone("manage_service",
                  IF ServiceCommand(service_name, action) = None THEN << >>
                  ELSE ServiceCommand(service_name, action)[1],
                  <<service_name, action>>,
                  ServiceOutcome(service_name, action, consent, offer, answer,
                                 relaunch_ok, run_answer, outcome))

\* "allow" if action.lower() == "allow" else "block", as the word of netsh
ActionWord(action) ==
    IF action \in {"allow", "ALLOW"} THEN "action=allow" ELSE "action=block"

\* "in" if direction.lower() == "in" else "out", as the word of netsh
DirWord(direction) ==
    IF direction \in {"in", "IN"} THEN "dir=in" ELSE "dir=out"

\* netsh_cmd for a rule named "rule" on TCP with no port
FirewallCommand(action, direction) ==
    <<"netsh", "advfirewall", "firewall", "add", "rule", "name=\"rule\"",
      DirWord(direction), ActionWord(action), "protocol=TCP">>

\* create_firewall_rule(name, action, direction) as a function of the
\* answers of its dialogs, of whether the relaunch starts and of what the
\* command does
FirewallOutcome(action, direction, consent, offer, answer, relaunch_ok, run_answer, outcome) ==
    LET step == ElevationStep(offer, answer, relaunch_ok)
        asked == IF is_elevated THEN <<TRUE>> ELSE <<TRUE>> \o step.answers
    IN  IF platform # "Windows"
        THEN NoCommandRun(Returned(FALSE), << >>, 0, FALSE)
        ELSE IF ~consent
        THEN NoCommandRun(Returned(FALSE), <<FALSE>>, 0, FALSE)
        ELSE IF ~is_elevated /\ step.exited
        THEN NoCommandRun(Void, asked, step.spawned, TRUE)
        ELSE IF ~is_elevated /\ ~step.passed
        THEN NoCommandRun(Returned(FALSE), asked, step.spawned, FALSE)
        ELSE LET run == RunCommand(FirewallCommand(action, direction),
                                   run_answer, outcome)
             IN  CommandRun(Returned(run.result[1] = 0), asked, run)

create_firewall_rule(action, direction, consent, offer, answer, relaunch_ok, run_answer, outcome) ==
    OperationDone("create_firewall_rule", FirewallCommand(action, direction),
                  <<"rule", action, direction>>,
                  FirewallOutcome(action, direction, consent, offer, answer,
                                  relaunch_ok, run_answer, outcome))

\* schtasks_cmd for the task "task" running `echo hi`
TaskCommand(schedule) ==
    <<"schtasks", "/Create", "/TN", Quoted("task"), "/TR", "\"echo hi\"",
      "/SC", schedule, "/F">>

\* create_scheduled_task(name, command, schedule)
TaskOutcome(schedule, consent, run_answer, outcome) ==
    IF platform # "Windows"
    THEN NoCommandRun(Returned(FALSE), << >>, 0, FALSE)
    ELSE IF ~consent
    THEN NoCommandRun(Returned(FALSE), <<FALSE>>, 0, FALSE)
    ELSE LET run == RunCommand(TaskCommand(schedule), run_answer, outcome)
         IN  CommandRun(Returned(run.result[1] = 0), <<TRUE>>, run)

create_scheduled_task(schedule, consent, run_answer, outcome) ==
    OperationDone("create_scheduled_task", TaskCommand(schedule),
                  <<"task", schedule>>,
                  TaskOutcome(schedule, consent, run_answer, outcome))

----------------------------------------------------------------------------
(* FileSystemInterface over a PermissionManager, and open_file *)

\* The search of check_permission in a given table
FoundIn(table, path, operation) ==
    \/ ImplicitAllows(path, operation)
    \/ path \in DOMAIN table /\ allows(table[path], operation)
    \/ \E parent \in Ancestors(path) :
           parent \in DOMAIN table /\ allows(table[parent], operation)

\* _check_permission that records a grant whatever the answer
Checked_GrantsOnDenial(table, path, operation, answer) ==
    IF FoundIn(table, path, operation)
    THEN [result |-> TRUE, answers |-> << >>, table |-> table, denied |-> {}]
    ELSE IF ui_callback
    THEN [result |-> answer, answers |-> <<answer>>,
          table |-> Granted(table, path, {operation}, NoExpiry, "user"),
          denied |-> IF answer THEN {} ELSE {<<path, operation>>}]
    ELSE [result |-> FALSE, answers |-> << >>, table |-> table, denied |-> {}]

\* _check_permission(path, operation) with a permission manager, on the
\* table left by the checks made before it in the same call: the value
\* returned, the answers of the consent callback, the table left and the
\* request the callback refused
Checked(table, path, operation, answer) ==
    IF FoundIn(table, path, operation)
    THEN [result |-> TRUE, answers |-> << >>, table |-> table, denied |-> {}]
    ELSE IF ui_callback /\ answer
    THEN [result |-> TRUE, answers |-> <<TRUE>>,
          table |-> Granted(table, path, {operation}, NoExpiry, "user"),
          denied |-> {}]
    ELSE IF ui_callback
    THEN [result |-> FALSE, answers |-> <<FALSE>>, table |-> table,
          denied |-> {<<path, operation>>}]
    ELSE [result |-> FALSE, answers |-> << >>, table |-> table, denied |-> {}]

\* The effect of a file operation on the state, and its record; checks is
\* the sequence of the permission checks it made, files_after the file
\* system it leaves. The directories mkdir creates are not tracked.
FileDone(op, args, result, checks, files_after) ==
    LET table == IF checks = << >> THEN permissions
                 ELSE checks[Len(checks)].table
        Answers[i \in 0..Len(checks)] ==
            IF i = 0 THEN << >> ELSE Answers[i - 1] \o checks[i].answers
    IN  /\ lock = Free
        /\ permissions' = table
        /\ config_file' = IF auto_save /\ \E i \in 1..Len(checks) :
                                             checks[i].answers = <<TRUE>>
                          THEN SavedFile(table) ELSE config_file
        /\ files' = files_after
        /\ last' = SystemCallWith(op, << >>, args, result,
                                  Answers[Len(checks)], Len(checks), 0, 0)
                       @@ [denied |-> UNION {checks[i].denied :
                                                i \in 1..Len(checks)}]
        /\ UNCHANGED <<now, lockVars, ui_callback, systemVars, platform,
                       is_elevated, exited, registry>>

\* read_file(path): the content, None on a denial or an error
read_file(path, answer) ==
    LET check == Checked(permissions, path, "read", answer)
    IN  FileDone("read_file", <<path>>,
                 IF check.result /\ path \in DOMAIN files
                 THEN Returned(files[path]) ELSE Returned(None),
                 <<check>>, files)

\* write_file(path, content); io_ok is whether open and write succeed
write_file(path, content, answer, io_ok) ==
    LET check == Checked(permissions, path, "write", answer)
        done == check.result /\ io_ok
    IN  FileDone("write_file", <<path, content>>, Returned(done), <<check>>,
                 IF done THEN Put(files, path, content) ELSE files)

\* append_file(path, content)
append_file(path, content, answer, io_ok) ==
    LET check == Checked(permissions, path, "write", answer)
        done == check.result /\ io_ok
        before == IF path \in DOMAIN files THEN files[path] ELSE << >>
    IN  FileDone("append_file", <<path, content>>, Returned(done), <<check>>,
                 IF done THEN Put(files, path, before \o content) ELSE files)

\* delete_file(path)
delete_file(path, answer, io_ok) ==
    LET check == Checked(permissions, path, "delete", answer)
        done == check.result /\ path \in DOMAIN files /\ io_ok
    IN  FileDone("delete_file", <<path>>, Returned(done), <<check>>,
                 IF done THEN Remove(files, path) ELSE files)

\* copy_file(src_path, dst_path): read on the source, then write on the
\* destination
copy_file(src_path, dst_path, answer1, answer2, io_ok) ==
    LET read == Checked(permissions, src_path, "read", answer1)
        write == Checked(read.table, dst_path, "write", answer2)
        checks == IF read.result THEN <<read, write>> ELSE <<read>>
        done == /\ read.result /\ write.result
                /\ src_path \in DOMAIN files /\ io_ok
    IN  FileDone("copy_file", <<src_path, dst_path>>, Returned(done), checks,
                 IF done THEN Put(files, dst_path, files[src_path])
                 ELSE files)

\* move_file(src_path, dst_path): read, then delete on the source, then
\* write on the destination
move_file(src_path, dst_path, answer1, answer2, answer3, io_ok) ==
    LET read == Checked(permissions, src_path, "read", answer1)
        delete == Checked(read.table, src_path, "delete", answer2)
        write == Checked(delete.table, dst_path, "write", answer3)
        checks == IF ~read.result THEN <<read>>
                  ELSE IF ~delete.result THEN <<read, delete>>
                  ELSE <<read, delete, write>>
        done == /\ read.result /\ delete.result /\ write.result
                /\ src_path \in DOMAIN files /\ io_ok
    IN  FileDone("move_file", <<src_path, dst_path>>, Returned(done), checks,
                 IF done
                 THEN Put(Remove(files, src_path), dst_path, files[src_path])
                 ELSE files)

\* open_file(file_path): has_permission, the consent dialog, the grant, then
\* the default application is started; open_ok is whether that succeeds
open_file(file_path, answer, open_ok) ==
    LET found == PermissionFound(file_path, "execute")
        out == IF file_path \notin DOMAIN files
               THEN [result |-> FALSE, answers |-> << >>, store_calls |-> 0,
                     table |-> permissions, spawned |-> 0, denied |-> {}]
               ELSE IF found
               THEN [result |-> open_ok, answers |-> << >>, store_calls |-> 1,
                     table |-> permissions,
                     spawned |-> IF open_ok THEN 1 ELSE 0, denied |-> {}]
               ELSE IF ~answer
               THEN [result |-> FALSE, answers |-> <<FALSE>>,
                     store_calls |-> 1, table |-> permissions, spawned |-> 0,
                     denied |-> {<<file_path, "execute">>}]
               ELSE [result |-> open_ok, answers |-> <<TRUE>>,
                     store_calls |-> 2,
                     table |-> Granted(permissions, file_path, {"execute"},
                                       NoExpiry, "user"),
                     spawned |-> IF open_ok THEN 1 ELSE 0, denied |-> {}]
    IN  /\ launch = None
        /\ lock = Free
        /\ permissions' = out.table
        /\ config_file' = IF out.store_calls = 2 /\ auto_save
                          THEN SavedFile(out.table) ELSE config_file
        /\ last' = SystemCallWith("open_file", << >>, <<file_path>>,
                                  Returned(out.result), out.answers,
                                  out.store_calls, out.spawned, 0)
                       @@ [denied |-> out.denied]
        /\ UNCHANGED <<now, hostVars, lockVars, ui_callback, systemVars>>

----------------------------------------------------------------------------
(* PermissionManager.has_permission, statement by statement, by a thread *)

\* callback = self.ui_callback; self.ui_callback = None: the thread keeps the
\* callback it found, outside the lock
has_permission_save(thread, path, operation) ==
    /\ pending[thread] = None
    /\ pending' = [pending EXCEPT
                      ![thread] = Some([path |-> path, operation |-> operation,
                                        callback |-> ui_callback,
                                        pc |-> "saved", result |-> FALSE,
                                        prompts |-> 0])]
    /\ ui_callback' = FALSE
    /\ last' = CallWith("has_permission", path, operation, <<thread>>, Void, 0)
    /\ UNCHANGED <<now, hostVars, lock, permissions, config_file>>
    /\ UNCHANGED systemVars

\* return self.check_permission(path, operation): the check runs under the
\* lock with the callback self.ui_callback holds at that moment
has_permission_check(thread, answer) ==
    /\ pending[thread] # None
    /\ pending[thread][1].pc = "saved"
    /\ lock = Free
    /\ LET call == pending[thread][1]
           out == CheckOutcome(call.path, call.operation, ui_callback, answer)
       IN  /\ permissions' = out.table
           /\ config_file' = IF out.saved THEN SavedFile(out.table)
                             ELSE config_file
           /\ pending' = [pending EXCEPT
                             ![thread] = Some([call EXCEPT
                                                  !.pc = "checked",
                                                  !.result = out.result,
                                                  !.prompts = out.prompts])]
           /\ last' = CallWith("check_permission", call.path, call.operation,
                               <<thread>>, Returned(out.result), out.prompts)
    /\ UNCHANGED <<now, hostVars, lock, ui_callback>>
    /\ UNCHANGED systemVars

\* finally: self.ui_callback = callback, and the call returns
has_permission_restore(thread) ==
    /\ pending[thread] # None
    /\ pending[thread][1].pc = "checked"
    /\ LET call == pending[thread][1]
       IN  /\ ui_callback' = call.callback
           /\ last' = CallWith("has_permission", call.path, call.operation,
                               <<thread>>, Returned(call.result), call.prompts)
    /\ pending' = [pending EXCEPT ![thread] = None]
    /\ UNCHANGED <<now, hostVars, lock, permissions, config_file>>
    /\ UNCHANGED systemVars

----------------------------------------------------------------------------
(* PermissionManager: the table operations of a thread, statement by
   statement inside their `with self._lock` block *)

\* A call of a table operation and its arguments; operations is Some(set)
\* or None
StoreCall(op, path, operations, duration) ==
    [op |-> op, path |-> path, operations |-> operations,
     duration |-> duration]

\* the table the statements of the call leave, given the table they find
Applied(call, table) ==
    IF call.op = "grant_permission"
    THEN Granted(table, call.path, call.operations[1], call.duration, "user")
    ELSE IF call.op = "revoke_permission"
    THEN Revoked(table, call.path, call.operations)
    ELSE IF call.op = "list_permissions" THEN Pruned(table)
    ELSE NoRecords

\* whether the call reaches _save_permissions, given the table it found
Saves(call, table) ==
    /\ auto_save
    /\ call.op = "revoke_permission" => call.path \in DOMAIN table
    /\ call.op = "list_permissions" => Pruned(table) # table

\* a `with self._lock` that excludes nobody
locked_enter_NoExclusion(thread, call) ==
    /\ pending[thread] = None
    /\ lock' = thread
    /\ pending' = [pending EXCEPT
                      ![thread] = Some([call |-> call, seen |-> permissions,
                                        pc |-> "locked"])]
    /\ UNCHANGED <<now, hostVars, storeVars, last>>
    /\ UNCHANGED systemVars

\* with self._lock: the thread acquires the lock and finds the table
locked_enter(thread, call) ==
    /\ pending[thread] = None
    /\ lock = Free
    /\ lock' = thread
    /\ pending' = [pending EXCEPT
                      ![thread] = Some([call |-> call, seen |-> permissions,
                                        pc |-> "locked"])]
    /\ UNCHANGED <<now, hostVars, storeVars, last>>
    /\ UNCHANGED systemVars

\* the statements that change self.permissions
locked_update(thread) ==
    /\ pending[thread] # None
    /\ pending[thread][1].pc = "locked"
    /\ permissions' = Applied(pending[thread][1].call, pending[thread][1].seen)
    /\ pending' = [pending EXCEPT ![thread] = Some([@[1] EXCEPT !.pc = "updated"])]
    /\ UNCHANGED <<now, hostVars, lock, ui_callback, config_file, last>>
    /\ UNCHANGED systemVars

\* if self.auto_save: self._save_permissions(), then the end of the with
\* block and the return
locked_exit(thread) ==
    /\ pending[thread] # None
    /\ pending[thread][1].pc = "updated"
    /\ config_file' = IF Saves(pending[thread][1].call, pending[thread][1].seen)
                      THEN SavedFile(permissions) ELSE config_file
    /\ lock' = Free
    /\ pending' = [pending EXCEPT ![thread] = None]
    /\ last' = CallWith(pending[thread][1].call.op, pending[thread][1].call.path,
                        "", <<thread, pending[thread][1].call.operations>>,
                        Void, 0)
    /\ UNCHANGED <<now, hostVars, permissions, ui_callback>>
    /\ UNCHANGED systemVars


-----------------------------------------------------------------------------
(* Two PermissionManager instances of one process on one config file.        *)
(* AgenticCore constructs a FileOperationManager and a SystemOperationManager;*)
(* each constructs its own PermissionManager on "config/permissions.json"    *)
(* with auto_save.  In this part `permissions` holds self.permissions of     *)
(* each instance, by the name of the manager that owns it; config_file is    *)
(* the one file they share.                                                  *)

Managers == {"file_manager", "system_manager"}

\* AgenticCore.__init__: both managers construct their store, each loading
\* the file as it is then (a start or restart of the process)
AgenticCore_init ==
    /\ permissions' = [manager \in Managers |-> LoadedPermissions(config_file)]
    /\ last' = Call("__init__", Root, "", Void, 0)
    /\ UNCHANGED <<now, hostVars, lockVars, config_file, ui_callback>>
    /\ UNCHANGED systemVars

\* grant_permission on the store of one manager; _save_permissions writes the
\* table of that instance over the file
shared_grant_permission(manager, path, operations, duration) ==
    /\ permissions' = [permissions EXCEPT
                          ![manager] = Granted(@, path, operations, duration, "user")]
    /\ config_file' = AutoSaved(permissions'[manager])
    /\ last' = CallWith("grant_permission", path, "",
                        <<manager, operations, duration>>, Void, 0)
    /\ UNCHANGED <<now, hostVars, lockVars, ui_callback>>
    /\ UNCHANGED systemVars

\* revoke_permission(path) on the store of one manager
shared_revoke_permission(manager, path) ==
    /\ permissions' = [permissions EXCEPT ![manager] = Revoked(@, path, None)]
    /\ config_file' = IF path \in DOMAIN permissions[manager]
                      THEN AutoSaved(permissions'[manager]) ELSE config_file
    /\ last' = CallWith("revoke_permission", path, "", <<manager>>, Void, 0)
    /\ UNCHANGED <<now, hostVars, lockVars, ui_callback>>
    /\ UNCHANGED systemVars

SharedPaths == {D1, D2}
SharedOperations == {{"read"}, {"write"}}

InitShared ==
    /\ now = StartTime
    /\ config_file = NoFile
    /\ permissions = [manager \in Managers |-> LoadedPermissions(config_file)]
    /\ ui_callback = FALSE
    /\ last = NoCall
    /\ InitSystem

NextShared ==
    \/ Tick
    \/ AgenticCore_init
    \/ \E manager \in Managers, path \in SharedPaths, operations \in SharedOperations, duration \in Durations :
           shared_grant_permission(manager, path, operations, duration)
    \/ \E manager \in Managers, path \in SharedPaths :
           shared_revoke_permission(manager, path)

SpecShared == InitShared /\ [][NextShared]_vars

----------------------------------------------------------------------------
(* Properties of the permission store *)

InForce(record) == record.expires_at = NoExpiry \/ now < record.expires_at
Expired(record) == record.expires_at # NoExpiry /\ record.expires_at <= now

\* a record in force on a true ancestor directory of path holds operation
AncestorSupplies(path, operation) ==
    \E i \in 0..(Len(path) - 1) :
        LET dir == SubSeq(path, 1, i)
        IN  /\ dir \in DOMAIN permissions
            /\ operation \in permissions[dir].operations
            /\ InForce(permissions[dir])

\* path is the workspace root or a true descendant of it
UnderWorkspace(path) ==
    /\ Len(workspace_path) <= Len(path)
    /\ SubSeq(path, 1, Len(workspace_path)) = workspace_path

\* C1 (grant): grant_permission(P, ops, d) leaves on P a record that holds
\* every operation of ops and expires at now + d, or never when no duration
\* is given.
C1_GrantRecords ==
    last'.op = "grant_permission" =>
        LET path == last'.path
            operations == last'.args[1]
            duration == last'.args[2]
        IN  /\ path \in DOMAIN permissions'
            /\ operations \subseteq permissions'[path].operations
            /\ permissions'[path].expires_at =
                   (IF duration = NoExpiry THEN NoExpiry ELSE now + duration)

\* C1 (check): while a record on P that holds O is permanent or the time is
\* before its expires_at, check_permission(P, O) and has_permission(P, O)
\* return true and the consent callback is not invoked; once expires_at has
\* elapsed they return false unless an ancestor record, the workspace rule or
\* the consent callback supplies O.
C1_CheckFollowsRecord ==
    (/\ last'.op \in {"check_permission", "has_permission"}
     /\ last'.path \in DOMAIN permissions
     /\ last'.operation \in permissions[last'.path].operations) =>
        LET path == last'.path
            operation == last'.operation
        IN  /\ InForce(permissions[path]) =>
                   /\ last'.result = Returned(TRUE)
                   /\ last'.prompts = 0
            /\ (/\ Expired(permissions[path])
                /\ ~AncestorSupplies(path, operation)
                /\ ~UnderWorkspace(path)
                /\ last'.prompts = 0) =>
                   last'.result = Returned(FALSE)

\* C1: for every path P and operation O, after grant_permission(P, [O]) with
\* no duration check_permission(P, O) and has_permission(P, O) return true
\* without invoking the consent callback; after a grant with duration d they
\* return true while the time is before expires_at and false once it has
\* elapsed, unless an ancestor record, the workspace rule or the consent
\* callback supplies O.
C1_GrantThenCheck == [][C1_GrantRecords /\ C1_CheckFollowsRecord]_vars

\* C1 witness: has_permission has just returned false on a path whose record,
\* granted in this run for a duration, holds the operation and has expired.
C1_Witness ==
    /\ last.op = "has_permission"
    /\ last.result = Returned(FALSE)
    /\ last.path \in DOMAIN permissions
    /\ last.operation \in permissions[last.path].operations
    /\ permissions[last.path].granted_at >= StartTime
    /\ Expired(permissions[last.path])

SameElsewhere(path) ==
    \A other \in (DOMAIN permissions \cup DOMAIN permissions') \ {path} :
        /\ other \in DOMAIN permissions
        /\ other \in DOMAIN permissions'
        /\ permissions'[other] = permissions[other]

\* C3 (revoke): the record of P is deleted when no operations are given or
\* none remain, otherwise it loses exactly the listed operations; the records
\* of other paths are unchanged and a path with no record changes nothing.
C3_RevokeRecords ==
    last'.op = "revoke_permission" =>
        LET path == last'.path
            operations == last'.args[1]
        IN  /\ SameElsewhere(path)
            /\ path \notin DOMAIN permissions =>
                   UNCHANGED <<permissions, config_file>>
            /\ (path \in DOMAIN permissions /\ operations = None) =>
                   path \notin DOMAIN permissions'
            /\ (path \in DOMAIN permissions /\ operations # None) =>
                   LET left == permissions[path].operations \ operations[1]
                   IN  IF left = {} THEN path \notin DOMAIN permissions'
                       ELSE /\ path \in DOMAIN permissions'
                            /\ permissions'[path] =
                                   [permissions[path] EXCEPT !.operations = left]

\* C3 (check): on a path with no record has_permission is false for every
\* operation unless an ancestor record or the workspace rule allows it.
C3_NoRecordNoPermission ==
    (/\ last'.op = "has_permission"
     /\ last'.path \notin DOMAIN permissions
     /\ ~AncestorSupplies(last'.path, last'.operation)
     /\ ~UnderWorkspace(last'.path)) =>
        last'.result = Returned(FALSE)

\* C3: revoke_permission(P) deletes the whole record of P and
\* revoke_permission(P, ops) removes exactly the listed operations, deleting
\* the record when none remain; after revoke_permission(P) has_permission(P, O)
\* is false for every O unless an ancestor record or the workspace rule allows
\* O; records of other paths are unchanged and revoking a path with no record
\* changes nothing.
C3_Revoke == [][C3_RevokeRecords /\ C3_NoRecordNoPermission]_vars

\* C3 witness: revoke_permission with a list of operations has just left a
\* record with fewer operations on its path, next to the record of another path.
C3_Witness ==
    /\ last.op = "revoke_permission"
    /\ last.args[1] # None
    /\ last.args[1][1] # {}
    /\ last.path \in DOMAIN permissions
    /\ permissions[last.path].operations \cap last.args[1][1] = {}
    /\ \E other \in DOMAIN permissions : other # last.path

\* C4 (check): a record whose expires_at is in the past does not make
\* check_permission or has_permission return true, on the path itself or on
\* an ancestor: when every record on the path and its ancestors that holds
\* the operation has expired, the answer is false unless the workspace rule
\* or the consent callback supplies it.
C4_ExpiredNeverAllows ==
    (/\ last'.op \in {"check_permission", "has_permission"}
     /\ last'.prompts = 0
     /\ ~UnderWorkspace(last'.path)
     /\ \A i \in 0..Len(last'.path) :
            LET dir == SubSeq(last'.path, 1, i)
            IN  (dir \in DOMAIN permissions
                 /\ last'.operation \in permissions[dir].operations)
                    => Expired(permissions[dir])) =>
        last'.result = Returned(FALSE)

\* C4 (list): list_permissions returns exactly the records that have not
\* expired and removes the expired ones from the table.
C4_ListPrunes ==
    last'.op = "list_permissions" =>
        LET kept == {p \in DOMAIN permissions : ~Expired(permissions[p])}
        IN  /\ DOMAIN permissions' = kept
            /\ \A p \in kept : permissions'[p] = permissions[p]
            /\ DOMAIN last'.result[1] = kept

\* C4 (load): the table loaded at construction holds no expired record.
C4_LoadExcludesExpired ==
    last.op \in {"init", "__init__"} =>
        \A p \in DOMAIN permissions : ~Expired(permissions[p])

\* C4: in every reachable state an expired record never makes
\* check_permission or has_permission return true, list_permissions never
\* returns such a record and removes it from the table, and the records
\* loaded from the file at construction exclude the expired ones.
C4_ExpiredIsAbsent ==
    /\ []C4_LoadExcludesExpired
    /\ [][C4_ExpiredNeverAllows /\ C4_ListPrunes]_vars

\* C4 witness: the program has just been constructed on a file that holds an
\* expired record, which the loaded table does not hold.
C4_Witness ==
    /\ last.op = "__init__"
    /\ \E p \in DOMAIN config_file.data :
           /\ config_file.data[p].expires_at # NoExpiry
           /\ config_file.data[p].expires_at <= now
           /\ config_file.data[p].granted_at >= StartTime
           /\ p \notin DOMAIN permissions

\* C5: a record whose expires_at has passed is treated as absent by grant as
\* well: a grant_permission(P, ops) made after the record of P has expired
\* yields a record that allows only ops, so the expired operations stay
\* refused.
C5_GrantOverExpiredStartsAfresh ==
    [][(/\ last'.op = "grant_permission"
        /\ last'.path \in DOMAIN permissions
        /\ Expired(permissions[last'.path])
        /\ last'.args[1] # {}
        /\ last'.args[1] \cap permissions[last'.path].operations = {}) =>
            permissions'[last'.path].operations = last'.args[1]]_vars

\* C6 (merge): a grant on a path that has a record unions the operations into
\* it and replaces expires_at, granted_by and granted_at by the call's values;
\* on a path with no record it creates the record; no other record changes
\* and the path keeps one record.
C6_GrantMerges ==
    last'.op = "grant_permission" =>
        LET path == last'.path
            operations == last'.args[1]
            duration == last'.args[2]
            granted_by == last'.args[3]
            expires_at == IF duration = NoExpiry THEN NoExpiry ELSE now + duration
            before == IF path \in DOMAIN permissions
                      THEN permissions[path].operations ELSE {}
        IN  /\ SameElsewhere(path)
            /\ DOMAIN permissions' = DOMAIN permissions \cup {path}
            /\ permissions'[path] =
                   [path |-> path, operations |-> before \cup operations,
                    granted_by |-> granted_by, expires_at |-> expires_at,
                    granted_at |-> now]

\* C6 (idempotence): the same grant made twice in a row leaves the operation
\* set and the permanence of the record as the first one left them.
C6_GrantRepeated ==
    (/\ last.op = "grant_permission"
     /\ last'.op = "grant_permission"
     /\ last'.path = last.path
     /\ last'.args = last.args) =>
        /\ permissions'[last.path].operations = permissions[last.path].operations
        /\ (permissions'[last.path].expires_at = NoExpiry)
               <=> (permissions[last.path].expires_at = NoExpiry)

\* C6: grant_permission is an idempotent merge: it unions the new operations
\* into an existing record and replaces expires_at, granted_by and granted_at
\* with the call's values (a later grant with no duration makes a time-boxed
\* record permanent); repeating the same grant leaves the operation set and
\* the permanence unchanged, and a path never has a second record.
C6_IdempotentMerge == [][C6_GrantMerges /\ C6_GrantRepeated]_vars

\* C6 witness: a grant with no duration has just merged its operations into
\* a record that held other operations, and the record is permanent.
C6_Witness ==
    /\ last.op = "grant_permission"
    /\ last.args[2] = NoExpiry
    /\ last.args[3] = "system"
    /\ last.args[1] # {}
    /\ last.path \in DOMAIN permissions
    /\ permissions[last.path].operations \ last.args[1] # {}
    /\ permissions[last.path].expires_at = NoExpiry
    /\ permissions[last.path].granted_by = "system"

----------------------------------------------------------------------------
(* The permission store with records on a chain of directories *)

TreePaths == {D1, D2, D3}
TreeCheckPaths == {D2, D3}
TreeOperations == {"read", "execute"}

InitTree ==
    /\ now = StartTime
    /\ config_file = NoFile
    /\ permissions = LoadedPermissions(config_file)
    /\ ui_callback = TRUE
    /\ last = NoCall
    /\ InitSystem

NextTree ==
    \/ Tick
    \/ \E path \in TreeCheckPaths, operation \in TreeOperations, answer \in BOOLEAN :
           check_permission(path, operation, answer)
    \/ \E path \in TreeCheckPaths, operation \in TreeOperations :
           has_permission(path, operation)
    \/ \E path \in TreePaths, operation \in TreeOperations, duration \in Durations :
           grant_permission(path, {operation}, duration, "user")
    \/ \E path \in TreePaths : revoke_permission(path, None)
    \/ list_permissions

SpecTree == InitTree /\ [][NextTree]_vars

\* C2: if a record in force on a directory D holds operation O, then
\* check_permission(C, O) and has_permission(C, O) are true for every
\* descendant C of D at any depth, whatever records exist on C or between D
\* and C, the consent callback is not invoked and no record is added.
C2_AncestorGrantCoversDescendants ==
    [][(/\ last'.op \in {"check_permission", "has_permission"}
        /\ AncestorSupplies(last'.path, last'.operation)) =>
            /\ last'.result = Returned(TRUE)
            /\ last'.prompts = 0
            /\ UNCHANGED permissions]_vars

\* C2 witness: check_permission has just returned true without a prompt for
\* a path two levels below the directory whose record holds the operation,
\* with an expired record in between and a record without the operation on
\* the path itself.
C2_Witness ==
    /\ last.op = "check_permission"
    /\ last.path = D3
    /\ last.result = Returned(TRUE)
    /\ last.prompts = 0
    /\ ui_callback
    /\ D1 \in DOMAIN permissions
    /\ last.operation \in permissions[D1].operations
    /\ InForce(permissions[D1])
    /\ D2 \in DOMAIN permissions
    /\ Expired(permissions[D2])
    /\ D3 \in DOMAIN permissions
    /\ last.operation \notin permissions[D3].operations

----------------------------------------------------------------------------
(* The implicit workspace rule: checks of paths in and next to the workspace *)

WorkspaceCheckPaths ==
    {workspace_path, WsSrcFile, WsLogsFile, WsCacheFile, WsTempFile,
     WsOutputFile, WsLogsPrivateFile, WsOtherFile}

\* the paths for which the user answers yes when asked
WorkspaceConsentPaths == {WsSrcFile}

WorkspaceAnswers(path) ==
    IF path \in WorkspaceConsentPaths THEN BOOLEAN ELSE {FALSE}

InitWorkspace ==
    /\ now = StartTime
    /\ config_file = NoFile
    /\ permissions = LoadedPermissions(config_file)
    /\ ui_callback = FALSE
    /\ last = NoCall
    /\ InitSystem

NextWorkspace ==
    \/ \E callback \in BOOLEAN : set_ui_callback(callback)
    \/ \E path \in WorkspaceCheckPaths, operation \in Operations :
           \E answer \in WorkspaceAnswers(path) :
               check_permission(path, operation, answer)
    \/ \E path \in WorkspaceCheckPaths, operation \in Operations :
           has_permission(path, operation)
    \/ clear_permissions

SpecWorkspace == InitWorkspace /\ [][NextWorkspace]_vars

\* path is one of the four safe directories of the workspace or a true
\* descendant of one
UnderSafeDirectory(path) ==
    /\ UnderWorkspace(path)
    /\ Len(workspace_path) < Len(path)
    /\ \E i \in 1..Len(safe_dirs) : path[Len(workspace_path) + 1] = safe_dirs[i]

IsCheck(call) == call.op \in {"check_permission", "has_permission"}

\* read is allowed on every path under the workspace root, without a prompt
C7_ReadUnderWorkspace ==
    (IsCheck(last') /\ UnderWorkspace(last'.path) /\ last'.operation = "read") =>
        /\ last'.result = Returned(TRUE)
        /\ last'.prompts = 0
        /\ UNCHANGED permissions

\* write and delete are allowed under the four safe directories, without a prompt
C7_WriteUnderSafeDirectory ==
    (/\ IsCheck(last')
     /\ UnderSafeDirectory(last'.path)
     /\ last'.operation \in {"write", "delete"}) =>
        /\ last'.result = Returned(TRUE)
        /\ last'.prompts = 0
        /\ UNCHANGED permissions

\* with an empty table and no consent, execute is refused everywhere
C7_ExecuteNeverImplicit ==
    (/\ IsCheck(last')
     /\ DOMAIN permissions = {}
     /\ last'.prompts = 0
     /\ last'.operation = "execute") =>
        last'.result = Returned(FALSE)

\* with an empty table and no consent, write and delete are refused under the
\* workspace outside the four safe directories
C7_WriteOutsideSafeDirectory ==
    (/\ IsCheck(last')
     /\ DOMAIN permissions = {}
     /\ last'.prompts = 0
     /\ UnderWorkspace(last'.path)
     /\ ~UnderSafeDirectory(last'.path)
     /\ last'.operation \in {"write", "delete"}) =>
        last'.result = Returned(FALSE)

\* C7: with a workspace root W and an empty table, read is allowed on every
\* path under W, write and delete on every path under W/logs, W/cache, W/temp
\* or W/output, execute is never allowed implicitly, and write and delete are
\* not allowed implicitly under W outside those four directories; the rule
\* never invokes the consent callback.
C7_ImplicitWorkspaceRule ==
    [][/\ C7_ReadUnderWorkspace
       /\ C7_WriteUnderSafeDirectory
       /\ C7_ExecuteNeverImplicit
       /\ C7_WriteOutsideSafeDirectory]_vars

\* The parts of C7 that the code satisfies
C7_PartsThatHold ==
    [][/\ C7_ReadUnderWorkspace
       /\ C7_WriteUnderSafeDirectory
       /\ C7_ExecuteNeverImplicit]_vars

----------------------------------------------------------------------------
(* SystemOperationManager with its PermissionManager *)

SystemCommands ==
    {<<"echo", "hi">>, <<"ECHO", "hi">>, <<"git", "status">>, <<"git", "push">>,
     <<"rm", "x">>, << >>}

\* the commands launched in the background
BackgroundCommands == {<<"echo", "hi">>, <<"git", "status">>, << >>}

\* a background call does not wait for the outcome of its command
NoOutcome == [kind |-> "none", returncode |-> 0]

ProcessIds == 1..MaxProcessIds

GitPath == Child(Cwd, <<"git">>)
RmPath == Child(Cwd, <<"rm">>)

\* SystemOperationManager.__init__: the PermissionManager loads the file and
\* gets the permission dialog as its callback
SystemInitialFiles ==
    {NoFile,
     FileOf([p \in {workspace_path} |->
                EarlierRecord(workspace_path, {"execute"}, NoExpiry)])}

InitSystemSpec ==
    /\ now = StartTime
    /\ config_file \in SystemInitialFiles
    /\ permissions = LoadedPermissions(config_file)
    /\ ui_callback = TRUE
    /\ last = NoCall
    /\ InitSystem

NextSystem ==
    \/ \E command \in SystemCommands, answer \in BOOLEAN, outcome \in Outcomes :
           execute_command(command, FALSE, 0, answer, outcome)
    \/ \E command \in BackgroundCommands, process_id \in ProcessIds,
          answer \in BOOLEAN :
           /\ execute_command(command, TRUE, process_id, answer, NoOutcome)
           /\ Len(workers') <= MaxWorkers
    \/ register_process
    \/ \E thread \in 1..MaxWorkers : background_task_run(thread)
    \/ \E thread \in 1..MaxWorkers, outcome \in Outcomes :
           background_task_store(thread, outcome)
    \/ \E path \in {GitPath, RmPath, workspace_path} : revoke_permission(path, None)

SpecSystem == InitSystemSpec /\ [][NextSystem]_vars

----------------------------------------------------------------------------
(* Properties of execute_command *)

\* the first words of the entries of the safe list
SafeFirstWords == {safe_commands[i][1] : i \in 1..Len(safe_commands)}

\* execute_command starts in this step (a background call is finished by a
\* later step, which leaves its call record but for the result)
ExecuteStarts ==
    /\ last'.op = "execute_command"
    /\ launch = None
    /\ last'.command # << >>

\* a record in force on path or on an ancestor of it holds operation
GrantCovers(path, operation) ==
    \/ /\ path \in DOMAIN permissions
       /\ operation \in permissions[path].operations
       /\ InForce(permissions[path])
    \/ AncestorSupplies(path, operation)

\* C8: for every command whose first token is one of the safe commands,
\* execute_command, synchronous or in the background, never invokes the
\* consent callback and never consults or modifies the permission table, in
\* any state of the store.
C8_SafeCommandBypassesConsent ==
    [][(ExecuteStarts /\ Lower(last'.command[1]) \in SafeFirstWords) =>
            /\ last'.prompts = 0
            /\ last'.store_calls = 0
            /\ UNCHANGED storeVars]_vars

\* C8 witness: a safe command has been started in the background and has
\* returned, with a consent callback configured and no record in the table.
C8_Witness ==
    /\ last.op = "execute_command"
    /\ last.command = <<"echo", "hi">>
    /\ last.args = <<TRUE>>
    /\ last.result # Void
    /\ last.threads = 1
    /\ last.prompts = 0
    /\ ui_callback
    /\ DOMAIN permissions = {}

\* C9: for an unsafe command token T with no covering grant the consent
\* callback is invoked exactly once across the execute_command calls: a call
\* that follows a call with the same first token that prompted does not
\* prompt again.
C9_PromptedOncePerToken ==
    [][(/\ ExecuteStarts
        /\ last.op = "execute_command"
        /\ last.prompts = 1
        /\ last'.command[1] = last.command[1]) =>
            last'.prompts = 0]_vars

\* C9 (amended): a call with an unsafe first token T invokes the consent
\* callback once when no grant in force covers T and not at all when one
\* does; a yes leaves a permanent execute grant on T, so that the next call
\* with first token T, whatever its arguments, does not prompt while that
\* grant stays in the table.
C9_PromptsUntilApproved ==
    [][(ExecuteStarts /\ Lower(last'.command[1]) \notin SafeFirstWords) =>
            LET executable == ExecutablePath(last'.command)
            IN  /\ last'.prompts =
                       IF GrantCovers(executable, "execute") THEN 0 ELSE 1
                /\ last'.answers = <<TRUE>> =>
                       /\ executable \in DOMAIN permissions'
                       /\ "execute" \in permissions'[executable].operations
                       /\ permissions'[executable].expires_at = NoExpiry
                /\ (/\ last.op = "execute_command"
                    /\ last.answers = <<TRUE>>
                    /\ last.command[1] = last'.command[1]
                    /\ executable \in DOMAIN permissions) =>
                       last'.prompts = 0]_vars

\* C9 witness: a command with other arguments has run without a prompt on
\* the grant that an earlier yes left on its first token.
C9_Witness ==
    /\ last.op = "execute_command"
    /\ last.command = <<"git", "push">>
    /\ last.prompts = 0
    /\ last.store_calls = 1
    /\ last.spawned = 1
    /\ workspace_path \notin DOMAIN permissions
    /\ GitPath \in DOMAIN permissions
    /\ permissions[GitPath].operations = {"execute"}
    /\ permissions[GitPath].granted_at >= StartTime

\* C10: when an unsafe command has no execute grant and the consent callback
\* answers no, execute_command returns (1, "", "Permission denied"), spawns
\* no process and starts no thread, also in the background, and leaves the
\* permission table, the process registry and last_operation unchanged.
C10_DenialHasNoEffect ==
    [][(last'.op = "execute_command" /\ last'.answers = <<FALSE>>) =>
            /\ last'.result = Returned(PermissionDenied)
            /\ last'.spawned = 0
            /\ last'.threads = 0
            /\ UNCHANGED <<permissions, config_file, running_processes,
                           last_operation, workers, launch>>]_vars

\* C10 witness: a background call of an unsafe command has been refused
\* after an earlier command has run and an earlier launch was registered.
C10_Witness ==
    /\ last.op = "execute_command"
    /\ last.command = <<"git", "status">>
    /\ last.args = <<TRUE>>
    /\ last.answers = <<FALSE>>
    /\ last.result = Returned(PermissionDenied)
    /\ last_operation.type = "command"
    /\ DOMAIN running_processes # {}
    /\ GitPath \notin DOMAIN permissions

----------------------------------------------------------------------------
(* SystemOperationManager: scripts and packages *)

Packages == {"requests"}

\* the path the interpreter word of a background script run resolves to
QuotedPythonPath == ExecutablePath(ScriptCommand)

\* the table the manager may find: none, or an execute grant on the script
FacadeInitialFiles ==
    {NoFile,
     FileOf([p \in {ScriptPath} |->
                EarlierRecord(ScriptPath, {"execute"}, NoExpiry)])}

InitFacade ==
    /\ now = StartTime
    /\ config_file \in FacadeInitialFiles
    /\ permissions = LoadedPermissions(config_file)
    /\ ui_callback = TRUE
    /\ last = NoCall
    /\ InitSystem

NextFacade ==
    \/ \E exists \in BOOLEAN, outcome \in Outcomes :
           execute_python_script(exists, FALSE, 0, FALSE, outcome)
    \/ \E exists \in BOOLEAN, process_id \in ProcessIds, answer \in BOOLEAN :
           /\ execute_python_script(exists, TRUE, process_id, answer, NoOutcome)
           /\ Len(workers') <= MaxWorkers
    \/ \E package_name \in Packages, upgrade \in BOOLEAN, user \in BOOLEAN,
          outcome \in Outcomes :
           install_package(package_name, upgrade, user, outcome)
    \/ register_process
    \/ \E thread \in 1..MaxWorkers : background_task_run(thread)
    \/ \E thread \in 1..MaxWorkers, outcome \in Outcomes :
           background_task_store(thread, outcome)
    \/ \E path \in {ScriptPath, QuotedPythonPath} : revoke_permission(path, None)

SpecFacade == InitFacade /\ [][NextFacade]_vars

----------------------------------------------------------------------------
(* Properties of execute_python_script and install_package *)

\* a call of execute_python_script on an existing script starts in this step
ScriptCallStarts ==
    /\ launch = None
    /\ last'.op \in {"execute_python_script", "execute_command"}
    /\ last'.command = ScriptCommand
    /\ last'.result # Returned(ScriptNotFound)

\* C11: execute_python_script follows the permission flow of
\* execute_command keyed on the script path: without an execute grant
\* covering the script path and without a yes of the consent callback it
\* returns (1, "", "Permission denied") and spawns nothing, synchronous or in
\* the background; with a grant on the script path it does not prompt.
C11_ScriptPermissionFlow ==
    [][ScriptCallStarts =>
           /\ (~GrantCovers(ScriptPath, "execute") /\ last'.answers # <<TRUE>>) =>
                  /\ last'.result = Returned(PermissionDenied)
                  /\ last'.spawned = 0
                  /\ last'.threads = 0
           /\ GrantCovers(ScriptPath, "execute") => last'.prompts = 0]_vars

\* C12: install_package starts pip only after a covering grant was found or
\* the consent callback answered yes in that call.
C12_InstallAfterConsent ==
    [][(last'.op = "install_package" /\ last'.spawned > 0) =>
           \/ last'.answers = <<TRUE>>
           \/ \E path \in DOMAIN permissions :
                  /\ InForce(permissions[path])
                  /\ "execute" \in permissions[path].operations]_vars

----------------------------------------------------------------------------
(* request_permission with and without a consent callback *)

BootstrapPaths == {D1, D2}
BootstrapGrants == {{"read"}, {"write"}}

InitBootstrap ==
    /\ now = StartTime
    /\ config_file = NoFile
    /\ permissions = LoadedPermissions(config_file)
    /\ ui_callback = FALSE
    /\ last = NoCall
    /\ InitSystem

NextBootstrap ==
    \/ Tick
    \/ \E callback \in BOOLEAN : set_ui_callback(callback)
    \/ \E path \in BootstrapPaths, operation \in Operations,
          answer1 \in BOOLEAN, answer2 \in BOOLEAN :
           request_permission(path, operation, answer1, answer2)
    \/ \E path \in BootstrapPaths, operations \in BootstrapGrants,
          duration \in Durations :
           grant_permission(path, operations, duration, "user")
    \/ \E path \in BootstrapPaths : revoke_permission(path, None)

SpecBootstrap == InitBootstrap /\ [][NextBootstrap]_vars

\* request_permission is called in this step with no callback configured on
\* a request that no grant in force and no workspace rule covers
UncoveredRequest ==
    /\ last'.op = "request_permission"
    /\ ~ui_callback
    /\ ~GrantCovers(last'.path, last'.operation)
    /\ ~UnderWorkspace(last'.path)

\* the operations of the record in force on path, if there is one
OperationsInForce(path) ==
    IF path \in DOMAIN permissions /\ InForce(permissions[path])
    THEN permissions[path].operations ELSE {}

\* the request returns false and leaves the table as it is, but for a read
\* on a path of at most two parts, which returns true and adds read, and
\* nothing but read, to what is in force on the path, for 3600 seconds
FailsClosed ==
    LET path == last'.path
    IN  IF last'.operation = "read" /\ Len(path) + 1 <= 2
        THEN /\ last'.result = Returned(TRUE)
             /\ last'.prompts = 0
             /\ path \in DOMAIN permissions'
             /\ permissions'[path].operations =
                    OperationsInForce(path) \cup {"read"}
             /\ permissions'[path].expires_at = now + 3600
             /\ SameElsewhere(path)
        ELSE /\ last'.result = Returned(FALSE)
             /\ last'.prompts = 0
             /\ UNCHANGED permissions

\* C13: with no consent callback configured request_permission fails closed:
\* it returns false and leaves the table unchanged for every request not
\* covered by a grant or the workspace rule, except that a read on a path of
\* at most two parts returns true and records a read-only grant on the path
\* that expires after 3600 seconds; write, execute and delete are never
\* approved.
C13_FailsClosed == [][UncoveredRequest => FailsClosed]_vars

\* C13 on the paths that hold no expired record
C13_FailsClosedWithoutExpiredRecord ==
    [][(/\ UncoveredRequest
        /\ last'.path \in DOMAIN permissions =>
               InForce(permissions[last'.path])) => FailsClosed]_vars

\* C14: one consent request invokes the callback at most once: a call of
\* request_permission, like a call of check_permission, asks at most one
\* time whatever the answer, and a denial is returned without a second prompt.
C14_AtMostOnePrompt ==
    [][last'.op \in {"request_permission", "check_permission"} =>
           last'.prompts <= 1]_vars

\* C14 for check_permission alone
C14_CheckAsksAtMostOnce ==
    [][last'.op = "check_permission" => last'.prompts <= 1]_vars

----------------------------------------------------------------------------
(* Threads on one PermissionManager *)

LockPaths == {D2}
LockOperations == {"read", "write"}

InitLock ==
    /\ now = StartTime
    /\ config_file = NoFile
    /\ permissions = LoadedPermissions(config_file)
    /\ ui_callback = TRUE
    /\ last = NoCall
    /\ InitSystem

NextLock ==
    \/ Tick
    \/ \E thread \in Threads, path \in LockPaths, operation \in LockOperations :
           check_permission_ask(thread, path, operation)
    \/ \E thread \in Threads, answer \in BOOLEAN :
           check_permission_answer(thread, answer)
    \/ \E path \in LockPaths \cup {D3}, operation \in LockOperations :
           has_permission(path, operation)
    \/ \E path \in LockPaths, operations \in {{"read"}, {"write"}},
          duration \in Durations :
           grant_permission(path, operations, duration, "user")
    \/ \E path \in LockPaths : revoke_permission(path, None)
    \/ list_permissions

SpecLock == InitLock /\ [][NextLock]_vars

\* C15: the permission-table lock is not held while the consent callback is
\* executing: whenever a thread is inside the consent callback the lock is
\* free, so that another thread's check_permission, has_permission,
\* grant_permission, revoke_permission or list_permissions can run to
\* completion.
C15_NoLockAcrossConsent ==
    (\E thread \in Threads : pending[thread] # None) =>
        /\ lock = Free
        /\ ENABLED list_permissions
        /\ \A path \in LockPaths :
               /\ ENABLED has_permission(path, "read")
               /\ ENABLED grant_permission(path, {"read"}, NoExpiry, "user")
               /\ ENABLED revoke_permission(path, None)

----------------------------------------------------------------------------
(* The process registry: launches, workers, status and kill *)

ProcessCommands == {<<"echo", "hi">>, <<"ls">>}
LaunchIds == 1..MaxLaunchIds

\* id(command) is the address of the string object: a launch has the id of
\* an earlier launch when it passes the same string object again, or a new
\* string at the address of one that is no longer referenced (its worker
\* has ended and the registry record does not hold it)
IdOf(command, process_id) ==
    \A thread \in 1..Len(workers) :
        workers[thread].process_id = process_id =>
            \/ workers[thread].command = command
            \/ /\ workers[thread].pc = "done"
               /\ process_id \in DOMAIN running_processes =>
                      "command" \notin DOMAIN running_processes[process_id]

InitProcesses ==
    /\ now = StartTime
    /\ config_file = NoFile
    /\ permissions = LoadedPermissions(config_file)
    /\ ui_callback = TRUE
    /\ last = NoCall
    /\ InitSystem

NextProcesses ==
    \/ \E command \in ProcessCommands, process_id \in LaunchIds :
           /\ IdOf(command, process_id)
           /\ execute_command(command, TRUE, process_id, FALSE, NoOutcome)
           /\ Len(workers') <= MaxLaunches
    \/ register_process
    \/ \E thread \in 1..MaxLaunches : background_task_run(thread)
    \/ \E thread \in 1..MaxLaunches, outcome \in Outcomes :
           background_task_store(thread, outcome)
    \/ \E process_id \in LaunchIds : get_process_status(process_id)
    \/ \E process_id \in LaunchIds : kill_process(process_id)

SpecProcesses == InitProcesses /\ [][NextProcesses]_vars

----------------------------------------------------------------------------
(* Properties of the process registry *)

\* the worker threads launched with the id
LaunchesOf(process_id) ==
    {thread \in 1..Len(workers) : workers[thread].process_id = process_id}

\* the id was given to one launch only
OnlyLaunch(process_id) == Cardinality(LaunchesOf(process_id)) = 1

\* the record under the id is the one kill_process leaves
Killed(process_id) ==
    /\ process_id \in DOMAIN running_processes
    /\ running_processes[process_id].completed
    /\ running_processes[process_id].stderr = "Process was killed"

\* C16: for a permitted background launch with id i, get_process_status(i)
\* reports exists and not completed while the process is running, and once
\* the process has exited every later get_process_status(i) reports
\* completed, in every interleaving of the worker with the launcher.
C16_StatusFollowsProcess ==
    [][last'.op = "get_process_status" =>
           LET i == last'.args[1]
               status == last'.result[1]
           IN  \A thread \in LaunchesOf(i) :
                   (OnlyLaunch(i) /\ launch = None) =>
                       /\ workers[thread].pc = "done" =>
                              status.exists /\ status.completed
                       /\ (workers[thread].pc # "done" /\ ~Killed(i)) =>
                              status.exists /\ ~status.completed]_vars

\* C17: a completed record never returns to completed = false and its
\* returncode, stdout and stderr never change, under every interleaving of
\* kill_process, the worker's completion write and the launcher's
\* registration write.
C17_TerminalIsFinal ==
    [][\A i \in DOMAIN running_processes :
           (OnlyLaunch(i) /\ running_processes[i].completed) =>
               /\ i \in DOMAIN running_processes'
               /\ running_processes'[i].completed
               /\ running_processes'[i].returncode = running_processes[i].returncode
               /\ running_processes'[i].stdout = running_processes[i].stdout
               /\ running_processes'[i].stderr = running_processes[i].stderr]_vars

\* C18: kill_process(id) on a running record marks it completed with
\* returncode 1 and stderr "Process was killed" and returns true; on a
\* completed record it returns true and changes no field; it returns false
\* if and only if the id is not in the registry, and then changes nothing.
C18_Kill ==
    [][last'.op = "kill_process" =>
           LET i == last'.args[1]
           IN  /\ last'.result = Returned(i \in DOMAIN running_processes)
               /\ i \notin DOMAIN running_processes => UNCHANGED running_processes
               /\ i \in DOMAIN running_processes =>
                      IF running_processes[i].completed
                      THEN UNCHANGED running_processes
                      ELSE /\ DOMAIN running_processes' = DOMAIN running_processes
                           /\ \A j \in DOMAIN running_processes \ {i} :
                                  running_processes'[j] = running_processes[j]
                           /\ running_processes'[i].completed
                           /\ running_processes'[i].returncode = 1
                           /\ running_processes'[i].stdout = ""
                           /\ running_processes'[i].stderr = "Process was killed"
                           /\ running_processes'[i].command =
                                  running_processes[i].command]_vars

\* C18 witness: kill_process has returned true on a record that a worker had
\* completed with return code 0, and the record is as the worker left it,
\* while another record is marked killed.
C18_Witness ==
    /\ last.op = "kill_process"
    /\ last.result = Returned(TRUE)
    /\ last.args[1] \in DOMAIN running_processes
    /\ running_processes[last.args[1]].completed
    /\ running_processes[last.args[1]].returncode = 0
    /\ \E i \in DOMAIN running_processes : Killed(i)

\* C19: after kill_process has marked the running record of a launch, the
\* spawned command is no longer running: its worker neither starts the
\* process nor stores a result afterwards.
C19_KillStopsProcess ==
    [][\A i \in DOMAIN running_processes :
           (OnlyLaunch(i) /\ Killed(i)) =>
               \A thread \in LaunchesOf(i) :
                   workers'[thread] = workers[thread]]_vars

\* C20: two background launches never share an id.
C20_UniqueIds ==
    \A thread \in 1..Len(workers), other \in 1..Len(workers) :
        thread # other => workers[thread].process_id # workers[other].process_id

----------------------------------------------------------------------------
(* The registry and the undo slot on a Windows host *)

K1 == <<"HKEY_CURRENT_USER", "Software", "App">>
K2 == <<"HKEY_CURRENT_USER", "Other">>
RegistryKeys == {K1, K2, <<"Software">>, <<"HKEY_PERFORMANCE_DATA", "X">>}
RegistryData == {"A", "B"}
RegistryTypes == {"REG_SZ", "REG_QWORD"}

\* K1\V holds P, K2\V does not exist
InitialRegistry ==
    [target \in {<<K1, "V">>} |-> [data |-> "P", type |-> type_map["REG_SZ"]]]

InitRegistry ==
    /\ now = StartTime
    /\ config_file = NoFile
    /\ permissions = LoadedPermissions(config_file)
    /\ ui_callback = TRUE
    /\ last = NoCall
    /\ InitManager
    /\ platform \in {"Windows", "Linux"}
    /\ is_elevated = FALSE
    /\ registry = InitialRegistry
    /\ files = NoRecords

NextRegistry ==
    \/ \E key_path \in RegistryKeys, value_data \in RegistryData,
          value_type \in RegistryTypes, answer \in BOOLEAN, write_ok \in BOOLEAN :
           modify_registry(key_path, "V", value_data, value_type, answer, write_ok)
    \/ \E answer \in BOOLEAN, write_ok \in BOOLEAN :
           rollback_last_operation(answer, write_ok)
    \/ \E outcome \in Outcomes :
           execute_command(<<"echo", "hi">>, FALSE, 0, FALSE, outcome)
    \/ \E outcome \in Outcomes :
           execute_python_script(TRUE, FALSE, 0, FALSE, outcome)
    \/ \E outcome \in Outcomes :
           install_package("requests", FALSE, TRUE, outcome)

SpecRegistry == InitRegistry /\ [][NextRegistry]_vars

----------------------------------------------------------------------------
(* Properties of the undo slot *)

\* rollback_last_operation is called in this step on a slot that holds a
\* registry record, every consent is approved and the registry can be written
ApprovedRollback ==
    /\ last'.op = "rollback_last_operation"
    /\ platform = "Windows"
    /\ last_operation.rollback_possible
    /\ last_operation.type = "registry"
    /\ last'.answers # <<FALSE>>
    /\ last'.write_ok

\* C21: on Windows with every consent approved, after modify_registry(K,V,A)
\* and modify_registry(K,V,B), rollback_last_operation returns true and
\* leaves K\V with the value it held just before the most recent write: an
\* approved rollback returns true and restores the value of the undo slot.
C21_RollbackRestoresPriorValue ==
    [][ApprovedRollback =>
           LET orig == last_operation.original_state[1]
               target == <<orig.key_path, orig.value_name>>
           IN  /\ last'.result = Returned(TRUE)
               /\ target \in DOMAIN registry'
               /\ registry'[target].data = orig.value_data]_vars

C23_SlotDescribesLatestMutation ==
    [][(last'.op = "modify_registry" /\ last'.result = Returned(TRUE)) =>
           /\ last_operation'.type = "registry"
           /\ last_operation'.target = <<last'.args[1], last'.args[2]>>]_vars

\* C24: rollback_last_operation returns false with no effect when rollback
\* is unavailable or the undo fails: with rollback_possible false it
\* prompts nobody and leaves the registry and last_operation unchanged; when
\* it returns false after a denied consent or a failed undo the registry
\* and last_operation are as before the call.
C24_FailedRollbackHasNoEffect ==
    [][last'.op = "rollback_last_operation" =>
           /\ ~last_operation.rollback_possible =>
                  /\ last'.result = Returned(FALSE)
                  /\ last'.prompts = 0
           /\ last'.result = Returned(FALSE) =>
                  UNCHANGED <<registry, last_operation>>]_vars

\* C24 witness: a rollback of a registry record was approved, its undo
\* failed and it returned false, with a value other than the initial one in
\* the registry.
C24_Witness ==
    /\ last.op = "rollback_last_operation"
    /\ last.answers = <<TRUE>>
    /\ last.write_ok
    /\ last.result = Returned(FALSE)
    /\ last_operation.rollback_possible
    /\ registry[<<K1, "V">>].data = "B"

C26_CommandRecordsSlot ==
    [][(/\ last'.op = "execute_command"
        /\ last'.args = <<FALSE>>
        /\ last'.spawned = 1
        /\ last_operation.rollback_possible) =>
           /\ last_operation'.type = "command"
           /\ ~last_operation'.rollback_possible]_vars

----------------------------------------------------------------------------
(* Elevation: a Windows or Linux host, elevated or not, with the dialogs,
   the relaunch and the commands as inputs; the program is started again
   after an exit *)

ServiceNames == {"svc"}
ServiceActions == {"query", "start", "stop", "restart", "pause"}
FirewallActions == {"allow", "deny"}
FirewallDirections == {"in", "out"}
ScPath == ExecutablePath(<<"sc">>)

InitElevation ==
    /\ now = StartTime
    /\ config_file = NoFile
    /\ permissions = NoRecords
    /\ ui_callback = TRUE
    /\ last = NoCall
    /\ InitManager
    /\ platform \in {"Windows", "Linux"}
    /\ is_elevated \in BOOLEAN
    /\ registry = NoRecords
    /\ files = NoRecords

NextElevation ==
    \/ \E elevated \in BOOLEAN : SystemOperationManager_init(elevated)
    \/ /\ ~exited
       /\ \E answer \in BOOLEAN, relaunch_ok \in BOOLEAN :
              elevate_privileges(answer, relaunch_ok)
    \/ /\ ~exited
       /\ \E service_name \in ServiceNames, action \in ServiceActions,
             consent \in BOOLEAN, offer \in BOOLEAN, answer \in BOOLEAN,
             relaunch_ok \in BOOLEAN, run_answer \in BOOLEAN,
             outcome \in Outcomes :
              manage_service(service_name, action, consent, offer, answer,
                             relaunch_ok, run_answer, outcome)
    \/ /\ ~exited
       /\ \E action \in FirewallActions, direction \in FirewallDirections,
             consent \in BOOLEAN, offer \in BOOLEAN, answer \in BOOLEAN,
             relaunch_ok \in BOOLEAN, run_answer \in BOOLEAN,
             outcome \in Outcomes :
              create_firewall_rule(action, direction, consent, offer, answer,
                                   relaunch_ok, run_answer, outcome)
    \/ /\ ~exited
       /\ revoke_permission(ScPath, None)

SpecElevation == InitElevation /\ [][NextElevation]_vars

\* C27 (as stated): elevate_privileges returns true exactly when the process
\* was already elevated, and then asks nobody and relaunches nothing; when
\* not elevated it returns false without attempting a relaunch if the
\* consent is denied or the platform is not Windows, and on approval on
\* Windows it starts the relaunch and the process exits instead of the call
\* returning.
C27_ElevateContract ==
    [][last'.op = "elevate_privileges" =>
        /\ (last'.result = Returned(TRUE)) <=> is_elevated
        /\ is_elevated =>
               last'.prompts = 0 /\ ~last'.attempted /\ last'.spawned = 0
        /\ ~is_elevated /\ (platform # "Windows" \/ last'.answers = <<FALSE>>) =>
               /\ last'.result = Returned(FALSE)
               /\ ~last'.attempted /\ last'.spawned = 0 /\ ~exited'
        /\ ~is_elevated /\ platform = "Windows" /\ last'.answers = <<TRUE>> =>
               /\ last'.attempted /\ last'.spawned = 1
               /\ exited' /\ last'.result = Void]_vars

\* C27 (amended): as stated, except that on approval on Windows the relaunch
\* is attempted and the process exits only if the batch file is written and
\* started; if that raises, nothing is started and the call returns false.
C27_ElevateExitsUnlessRelaunchFails ==
    [][last'.op = "elevate_privileges" =>
        /\ (last'.result = Returned(TRUE)) <=> is_elevated
        /\ is_elevated =>
               last'.prompts = 0 /\ ~last'.attempted /\ last'.spawned = 0
        /\ ~is_elevated /\ (platform # "Windows" \/ last'.answers = <<FALSE>>) =>
               /\ last'.result = Returned(FALSE)
               /\ ~last'.attempted /\ last'.spawned = 0 /\ ~exited'
        /\ ~is_elevated /\ platform = "Windows" /\ last'.answers = <<TRUE>> =>
               /\ last'.attempted
               /\ last'.relaunch_ok =>
                      last'.spawned = 1 /\ exited' /\ last'.result = Void
               /\ ~last'.relaunch_ok =>
                      /\ last'.spawned = 0 /\ ~exited'
                      /\ last'.result = Returned(FALSE)]_vars

\* an approved elevation on a non-elevated Windows process that ended in the
\* exit of the process
C27_Witness ==
    /\ last.op = "elevate_privileges"
    /\ platform = "Windows" /\ ~is_elevated
    /\ last.answers = <<TRUE>>
    /\ last.result = Void
    /\ exited

\* a step of an operation that needs elevated rights
NeedsElevation ==
    \/ last'.op = "manage_service" /\ requires_elevation(last'.args[2])
    \/ last'.op = "create_firewall_rule"

\* the failure value of such an operation
ElevationFailure ==
    IF last'.op = "manage_service"
    THEN Len(last'.result) = 1 /\ last'.result[1][1] = FALSE
    ELSE last'.result = Returned(FALSE)

\* C28: manage_service with start, stop or restart and create_firewall_rule
\* never run their sc/netsh command while the process is not elevated: the
\* elevation is requested after the operation consent and before the
\* command (no permission step of execute_command, no command recorded),
\* and the call either returns a failure with nothing launched or ends in
\* the exit of the process for the relaunch.
C28_NoCommandWithoutElevation ==
    [][NeedsElevation /\ ~is_elevated =>
        /\ last'.store_calls = 0
        /\ permissions' = permissions
        /\ last_operation' = last_operation
        /\ \/ exited' /\ last'.result = Void
           \/ ~exited' /\ ElevationFailure /\ last'.spawned = 0
        /\ platform = "Windows" /\ last'.answers # << >> /\ last'.answers[1] =>
               /\ Len(last'.answers) >= 2
               /\ exited' <=> last'.answers = <<TRUE, TRUE, TRUE>> /\ last'.spawned = 1]_vars

\* a start of a service on a non-elevated Windows process, every dialog
\* answered yes, that ended in the exit of the process
C28_Witness ==
    /\ last.op = "manage_service"
    /\ last.args[2] = "start"
    /\ platform = "Windows" /\ ~is_elevated
    /\ last.answers = <<TRUE, TRUE, TRUE>>
    /\ last.result = Void
    /\ exited

\* C29: execute_command never raises: for every command string, the empty
\* one included, a call ends with a returned (exit_code, stdout, stderr)
\* triple (or is still starting its background thread), and a failure has
\* the shape (1, "", message).
C29_ExecuteNeverRaises ==
    last.op = "execute_command" =>
        /\ Len(last.result) <= 1
        /\ Len(last.result) = 1 /\ last.result[1][1] = 1 =>
               last.result[1][2] = ""

----------------------------------------------------------------------------
(* Consent: the gated operations of the file layer and of the manager on a
   Windows host, with every dialog answered yes or no *)

FileA == D3
FileB == Child(D2, <<"g">>)
Content == <<"x">>
QueryCommand == <<"sc", "query", Quoted("svc")>>
SuccessfulExit == [kind |-> "exit", returncode |-> 0]
ConsentOutcomes == {SuccessfulExit, [kind |-> "timeout", returncode |-> 1]}

InitConsent ==
    /\ now = StartTime
    /\ config_file = NoFile
    /\ permissions = NoRecords
    /\ ui_callback = TRUE
    /\ last = NoCall
    /\ InitManager
    /\ platform = "Windows"
    /\ is_elevated \in BOOLEAN
    /\ registry = InitialRegistry
    /\ files = [p \in {FileA} |-> Content]

NextConsent ==
    \/ /\ ~exited
       /\ \E answer \in BOOLEAN : read_file(FileA, answer)
    \/ /\ ~exited
       /\ \E answer \in BOOLEAN, io_ok \in BOOLEAN :
              write_file(FileB, Content, answer, io_ok)
    \/ /\ ~exited
       /\ FileB \in DOMAIN files => Len(files[FileB]) < MaxContent
       /\ \E answer \in BOOLEAN : append_file(FileB, Content, answer, TRUE)
    \/ /\ ~exited
       /\ \E answer \in BOOLEAN : delete_file(FileA, answer, TRUE)
    \/ /\ ~exited
       /\ \E answer1 \in BOOLEAN, answer2 \in BOOLEAN :
              copy_file(FileA, FileB, answer1, answer2, TRUE)
    \/ /\ ~exited
       /\ \E answer1 \in BOOLEAN, answer2 \in BOOLEAN, answer3 \in BOOLEAN :
              move_file(FileA, FileB, answer1, answer2, answer3, TRUE)
    \/ /\ ~exited
       /\ \E answer \in BOOLEAN : open_file(FileA, answer, TRUE)
    \/ /\ ~exited
       /\ \E answer \in BOOLEAN, outcome \in ConsentOutcomes :
              execute_command(QueryCommand, FALSE, 1, answer, outcome)
    \/ /\ ~exited
       /\ \E answer \in BOOLEAN :
              modify_registry(K1, "V", "A", "REG_SZ", answer, TRUE)
    \/ /\ ~exited
       /\ \E consent \in BOOLEAN, offer \in BOOLEAN, answer \in BOOLEAN,
             run_answer \in BOOLEAN :
              manage_service("svc", "start", consent, offer, answer, TRUE,
                             run_answer, SuccessfulExit)
    \/ /\ ~exited
       /\ \E consent \in BOOLEAN, offer \in BOOLEAN, answer \in BOOLEAN,
             run_answer \in BOOLEAN :
              create_firewall_rule("allow", "in", consent, offer, answer,
                                   TRUE, run_answer, SuccessfulExit)
    \/ /\ ~exited
       /\ \E consent \in BOOLEAN, run_answer \in BOOLEAN :
              create_scheduled_task("DAILY", consent, run_answer,
                                    SuccessfulExit)

SpecConsent == InitConsent /\ [][NextConsent]_vars

FileOperations ==
    {"read_file", "write_file", "append_file", "delete_file", "copy_file",
     "move_file"}

GatedOperations ==
    FileOperations \cup
    {"execute_command", "open_file", "modify_registry", "manage_service",
     "create_firewall_rule", "create_scheduled_task"}

\* a step of a gated operation that ended on a no of a consent dialog
ConsentDenied ==
    /\ last'.op \in GatedOperations
    /\ last'.answers # << >>
    /\ ~last'.answers[Len(last'.answers)]

\* the (path, operation) requests the dialogs of the step refused
DeniedRequests ==
    IF last'.op \in FileOperations \cup {"open_file"} THEN last'.denied
    ELSE IF last'.store_calls > 0
    THEN {<<ExecutablePath(last'.command), "execute">>}
    ELSE {}

\* the failure value of the operation of the step
FailureValue ==
    IF last'.op = "read_file" THEN last'.result = Returned(None)
    ELSE IF last'.op = "execute_command"
    THEN last'.result = Returned(PermissionDenied)
    ELSE IF last'.op = "manage_service"
    THEN Len(last'.result) = 1 /\ last'.result[1][1] = FALSE
    ELSE last'.result = Returned(FALSE)

\* C30: a negative consent decision has no effect beyond the failure
\* result: the gated operation returns its failure value without raising,
\* performs no file-system, registry or process action, adds no grant for
\* the refused (path, operation), leaves last_operation and the process
\* registry unchanged, and the same request finds no permission afterwards,
\* so that it prompts again.
C30_NegativeConsentHasNoEffect ==
    [][ConsentDenied =>
        /\ FailureValue
        /\ UNCHANGED <<files, registry, running_processes, workers, launch,
                       last_operation, exited>>
        /\ last'.spawned = 0 /\ last'.threads = 0
        /\ \A request \in DeniedRequests :
               /\ request[1] \in DOMAIN permissions' =>
                      \/ request[2] \notin permissions'[request[1]].operations
                      \/ /\ request[1] \in DOMAIN permissions
                         /\ request[2] \in permissions[request[1]].operations
               /\ ~FoundIn(permissions', request[1], request[2])
        /\ last'.op \in FileOperations \cup {"open_file", "execute_command"} =>
               DeniedRequests # {}]_vars

\* a move whose read on the source was approved and whose delete was
\* refused: the file is where it was and only the read grant exists
C30_Witness ==
    /\ last.op = "move_file"
    /\ last.answers = <<TRUE, FALSE>>
    /\ last.denied = {<<FileA, "delete">>}
    /\ last.result = Returned(FALSE)
    /\ FileA \in DOMAIN files
    /\ FileA \in DOMAIN permissions
    /\ permissions[FileA].operations = {"read"}

\* C31: execute_python_script always runs the interpreter and the script as
\* an argument vector without a shell, in synchronous mode (the run the call
\* makes itself) and in background mode (the run of the worker it starts)
\* alike.
C31_ScriptNeverThroughShell ==
    /\ last.op = "execute_python_script" /\ last.spawned = 1 => ~last.shell
    /\ \A thread \in 1..Len(workers) :
           workers[thread].command = ScriptCommand => ~workers[thread].shell

----------------------------------------------------------------------------
(* has_permission from several threads: a store with a consent callback
   configured and never reconfigured *)

HasPaths == {D2}
HasOperations == {"read", "write"}

InitHas ==
    /\ now = StartTime
    /\ config_file = NoFile
    /\ permissions = LoadedPermissions(config_file)
    /\ ui_callback = TRUE
    /\ last = NoCall
    /\ InitSystem

NextHas ==
    \/ \E thread \in Threads, path \in HasPaths, operation \in HasOperations :
           has_permission_save(thread, path, operation)
    \/ \E thread \in Threads, answer \in BOOLEAN :
           has_permission_check(thread, answer)
    \/ \E thread \in Threads : has_permission_restore(thread)
    \/ \E path \in HasPaths, operation \in HasOperations, answer \in BOOLEAN :
           check_permission(path, operation, answer)
    \/ \E path \in HasPaths : revoke_permission(path, None)

SpecHas == InitHas /\ [][NextHas]_vars

\* C32: has_permission never invokes the consent callback and never adds a
\* grant: the check it makes asks nobody and leaves the table as it was, also
\* when other threads call has_permission or check_permission on the same
\* store at the same time.
C32_HasPermissionNeverAsks ==
    [][(\E thread \in Threads :
            /\ pending[thread] # None
            /\ pending'[thread] # None
            /\ pending[thread][1].pc = "saved"
            /\ pending'[thread][1].pc = "checked")
        => /\ last'.prompts = 0
           /\ permissions' = permissions]_vars

\* C33: once every has_permission call has returned, the consent callback of
\* the store is the one configured before the calls (here: it is set), under
\* any interleaving of the calls of several threads.
C33_CallbackRestored ==
    (\A thread \in Threads : pending[thread] = None) => ui_callback

----------------------------------------------------------------------------
(* The table operations from several threads *)

AtomicPaths == {D2}
AtomicCalls ==
    {StoreCall("grant_permission", D2, Some({"read"}), NoExpiry),
     StoreCall("grant_permission", D2, Some({"write"}), 1),
     StoreCall("revoke_permission", D2, None, NoExpiry),
     StoreCall("revoke_permission", D2, Some({"read"}), NoExpiry),
     StoreCall("list_permissions", Root, None, NoExpiry),
     StoreCall("clear_permissions", Root, None, NoExpiry)}

InitAtomic ==
    /\ now = StartTime
    /\ config_file = NoFile
    /\ permissions = LoadedPermissions(config_file)
    /\ ui_callback = FALSE
    /\ last = NoCall
    /\ InitSystem

NextAtomic ==
    \/ Tick
    \/ \E thread \in Threads, call \in AtomicCalls : locked_enter(thread, call)
    \/ \E thread \in Threads : locked_update(thread)
    \/ \E thread \in Threads : locked_exit(thread)
    \/ \E path \in AtomicPaths, operation \in {"read", "write"} :
           check_permission(path, operation, FALSE)

SpecAtomic == InitAtomic /\ [][NextAtomic]_vars

\* the thread whose call changes the table or returns in this step
Updating(thread) ==
    /\ pending[thread] # None /\ pending[thread][1].pc = "locked"
    /\ pending'[thread] # None /\ pending'[thread][1].pc = "updated"

Returning(thread) ==
    /\ pending[thread] # None /\ pending[thread][1].pc = "updated"
    /\ pending'[thread] = None

\* C34: grant_permission, revoke_permission, list_permissions and
\* clear_permissions of several threads are atomic with respect to each
\* other: the statements of a call change the table exactly as the call
\* would if it ran alone on the table as it is, nobody else changes the table
\* or the file until the call returns (so two concurrent grants of different
\* operations on a path leave both), each file write is a snapshot of the
\* table taken under the lock, and a check that starts once a grant has
\* returned sees it (as long as the grant has not expired).
C34_TableOperationsAtomic ==
    [][/\ \A thread \in Threads :
              /\ Updating(thread) =>
                     /\ lock = thread
                     /\ permissions' = Applied(pending[thread][1].call, permissions)
              /\ Returning(thread) =>
                     /\ lock = thread
                     /\ config_file' # config_file =>
                            config_file' = SavedFile(permissions)
              /\ lock = thread => \A other \in Threads \ {thread} :
                     pending'[other] = pending[other]
       /\ (\A thread \in Threads : ~Updating(thread)) =>
              permissions' = permissions
       /\ (\A thread \in Threads : ~Returning(thread)) =>
              config_file' = config_file
       /\ /\ last.op = "grant_permission"
          /\ last'.op = "check_permission"
          /\ last'.path = last.path
          /\ last'.operation \in last.args[2][1]
          /\ last.path \in DOMAIN permissions
          /\ InForce(permissions[last.path])
          => last'.result = Returned(TRUE)]_vars

\* two threads have granted read and write on the same path one after the
\* other, the second entering while the first was returning, and the record
\* holds both operations
C34_Witness ==
    /\ last.op = "grant_permission"
    /\ last.args[2] = Some({"write"})
    /\ \A thread \in Threads : pending[thread] = None
    /\ D2 \in DOMAIN permissions
    /\ permissions[D2].operations = {"read", "write"}
    /\ config_file = SavedFile(permissions)

C36_GrantSurvivesOtherInstance ==
    [][last'.op \in {"grant_permission", "revoke_permission"}
          => \A path \in DOMAIN config_file.data :
                 (path # last'.path /\ InForce(config_file.data[path]))
                     => /\ path \in DOMAIN config_file'.data
                        /\ config_file'.data[path] = config_file.data[path]]_vars

\* with an empty table and no consent, a path that is not the workspace root
\* or a true descendant of it gets no read
C37_NoReadOutsideWorkspace ==
    (/\ IsCheck(last')
     /\ DOMAIN permissions = {}
     /\ last'.prompts = 0
     /\ ~UnderWorkspace(last'.path)
     /\ last'.operation = "read") =>
        last'.result = Returned(FALSE)

\* with an empty table and no consent, a path that is not one of the four
\* safe directories or a true descendant of one gets no write and no delete
C37_NoWriteOutsideSafeDirectory ==
    (/\ IsCheck(last')
     /\ DOMAIN permissions = {}
     /\ last'.prompts = 0
     /\ ~UnderSafeDirectory(last'.path)
     /\ last'.operation \in {"write", "delete"}) =>
        last'.result = Returned(FALSE)

\* C37: implicit workspace trust applies only to the workspace root and its
\* true descendants: a path outside the root whose string shares the root's
\* prefix (/ws-other/f for the workspace /ws) gets no implicit read, and a
\* path under a workspace directory whose name only begins with the name of a
\* safe directory (/ws/logs_private/f) gets no implicit write or delete.
C37_TrustOnlyTrueDescendants ==
    [][C37_NoReadOutsideWorkspace /\ C37_NoWriteOutsideSafeDirectory]_vars

----------------------------------------------------------------------------
(* execute_command on python and pip commands *)

PythonScriptCommand == <<"python", "script.py">>
PipInstallCommand == <<"pip", "install", "x">>

\* the two invocations of python and pip that safe_commands lists
ListedInvocations == {<<"python", "--version">>, <<"pip", "--version">>}

SafeListCommands ==
    ListedInvocations \cup {PythonScriptCommand, PipInstallCommand, <<"git", "status">>}

NextSafeList ==
    \/ \E command \in SafeListCommands, answer \in BOOLEAN, outcome \in Outcomes :
           execute_command(command, FALSE, 0, answer, outcome)
    \/ \E command \in {PythonScriptCommand, <<"git", "status">>}, process_id \in ProcessIds, answer \in BOOLEAN :
           /\ execute_command(command, TRUE, process_id, answer, NoOutcome)
           /\ Len(workers') <= MaxWorkers
    \/ register_process
    \/ \E thread \in 1..MaxWorkers : background_task_run(thread)
    \/ \E thread \in 1..MaxWorkers, outcome \in Outcomes :
           background_task_store(thread, outcome)
    \/ \E path \in {GitPath, workspace_path} : revoke_permission(path, None)

SpecSafeList == InitSystemSpec /\ [][NextSafeList]_vars

\* C38: a command whose first token is python or pip and that is not one of
\* the listed invocations "python --version" and "pip --version" goes through
\* the execute permission check of the store and, when no grant covers it,
\* the consent callback.
C38_OnlyListedInvocationsBypass ==
    [][(/\ ExecuteStarts
        /\ Lower(last'.command[1]) \in {"python", "pip"}
        /\ last'.command \notin ListedInvocations) =>
            /\ last'.store_calls > 0
            /\ ~PermissionFound(ExecutablePath(last'.command), "execute")
                   => last'.prompts > 0]_vars

\* the call is a grant_permission on path that names an operation the record
\* of path already holds
Regrants(call, path) ==
    /\ call.op = "grant_permission"
    /\ call.path = path
    /\ call.args[1] \cap permissions[path].operations # {}

\* C39: an operation granted permanently on a path stays granted permanently
\* through every call other than revoke_permission and clear_permissions: in
\* particular a later time-boxed grant on the path for another operation
\* leaves the record of the path without an expiry and with the operation.
C39_PermanentGrantStays ==
    [][last'.op \notin {"revoke_permission", "clear_permissions"}
          => \A path \in DOMAIN permissions :
                 (/\ permissions[path].expires_at = NoExpiry
                  /\ permissions[path].operations # {}
                  /\ ~Regrants(last', path))
                     => /\ path \in DOMAIN permissions'
                        /\ permissions[path].operations \subseteq permissions'[path].operations
                        /\ permissions'[path].expires_at = NoExpiry]_vars

====
